---- MODULE Spec2Model ----
(***************************************************************************)
(* Model of the tool-update tracker (createToolUpdateTracker), the         *)
(* streaming update coalescer of the Telegram gateway.                     *)
(*                                                                         *)
(* One tracker instance is modelled together with its environment: the     *)
(* caller, which invokes handleToolUpdate / cleanup / stop one call at a   *)
(* time, the timer queue of the event loop (setTimeout / clearTimeout),    *)
(* and the remote chat transport, whose calls are in flight between the    *)
(* step that issues them and the step that resolves them (ok or failure).  *)
(***************************************************************************)
EXTENDS Integers, Sequences, FiniteSets, Bags, TLC

\* ------------------------------------------------------------------ bounds
\* Remote calls in flight beyond which the caller starts no new update.
MaxInflight == 1

\* --------------------------------------------------------- program constants
DEBOUNCE_MS == 2000
TELEGRAM_TEXT_LIMIT == 4096
TRUNCATION_SUFFIX == "..."

\* Granularity of the clock: time advances in steps of half a window.
TickMs == DEBOUNCE_MS \div 2

\* ------------------------------------------------------------------- texts
\* A string is modelled by its source (which string it was cut from), its
\* length, and whether its tail was replaced by the truncation suffix.
Str(src, len) == [src |-> src, len |-> len, cut |-> FALSE]

\* null / undefined
Null == Str("null", 0)
\* ""
EmptyText == Str("", 0)
\* "  "
BlankText == Str(" ", 2)
\* "Step 1..."
TextA == Str("Step 1...", 9)
\* a text longer than the transport's limit
TextL == Str("long", TELEGRAM_TEXT_LIMIT + 1)

\* The texts a caller passes in payload.text (Null: the field is absent).
PayloadTexts == {Null, BlankText, TextA, TextL}

\* text.trim(): whitespace-only and empty strings trim to "".
Trim(t) == IF t.src \in {"", " "} THEN EmptyText ELSE t

\* payload.text ?? ""
TextOrEmpty(t) == IF t = Null THEN EmptyText ELSE t

truncateText(text, limit) ==
  IF text.len <= limit
    THEN text
    ELSE [src |-> text.src,
          len |-> (limit - Len(TRUNCATION_SUFFIX)) + Len(TRUNCATION_SUFFIX),
          cut |-> TRUE]

\* ---------------------------------------------------------------- payloads
\* mediaUrl: "" when absent.  mediaUrls: <<>> when absent, << list >> when set.
Payload(text, mediaUrl, mediaUrls) ==
  [text |-> text, mediaUrl |-> mediaUrl, mediaUrls |-> mediaUrls]

PhotoUrl == "https://example.com/photo.jpg"
GalleryUrls == <<"https://example.com/a.jpg">>

\* The payloads a caller passes: a text without media or with an empty
\* mediaUrls list, no text or a blank one, and media with and without a text.
TextPayloads ==
  {Payload(t, "", <<>>) : t \in {TextA, TextL}}
    \cup {Payload(TextA, "", << <<>> >>)}

EmptyPayloads == {Payload(t, "", <<>>) : t \in {Null, BlankText}}

MediaPayloads ==
  {Payload(TextA, PhotoUrl, <<>>), Payload(Null, "", <<GalleryUrls>>),
   Payload(TextA, "", <<GalleryUrls>>)}

Payloads == TextPayloads \cup EmptyPayloads \cup MediaPayloads

\* What a payload is by the way it was built (not by what the tracker finds).
PayloadKind(payload) ==
  IF payload \in MediaPayloads THEN "media"
  ELSE IF payload \in TextPayloads THEN "text"
  ELSE "empty"

NoPayload == [text |-> Null, mediaUrl |-> "", mediaUrls |-> <<>>]

\* hasMedia looking at mediaUrl alone.
hasMediaUrlOnly(payload) == payload.mediaUrl # ""

hasMedia(payload) ==
  \/ payload.mediaUrl # ""
  \/ (payload.mediaUrls # <<>> /\ Len(payload.mediaUrls[1]) > 0)

\* markdownToTelegramHtml: the rendering collaborator, an injective wrapping
\* of the text (`<html>${text}</html>` in the test double).
markdownToTelegramHtml(text) == [html |-> TRUE, text |-> text]

\* a plain (unrendered) body, as passed to sendTelegramText
PlainBody(text) == [html |-> FALSE, text |-> text]

NoBody == PlainBody(Null)

\* ------------------------------------------------------------ remote calls
\* A call to a collaborator: the transport (send / edit / delete) or the
\* injected delivery function (deliver).  by: the operation that issued it.
Remote(kind, msg, body, payload, by) ==
  [kind |-> kind, msg |-> msg, body |-> body, payload |-> payload, by |-> by]

\* The calls in flight are a bag: the tracker never depends on their order.
Issue(n, r) == n (+) SetToBag({r})
Settle(n, r) == n (-) SetToBag({r})
InFlight(n) == BagToSet(n)

Min(a, b) == IF a <= b THEN a ELSE b

\* ============================================================ proofreading
\* ------------------------------------------------------------------ strings
\* A text of the proofreading code is a string, character by character.
At(s, i) == IF i >= 1 /\ i <= Len(s) THEN SubSeq(s, i, i) ELSE ""

From(s, i) == IF i > Len(s) THEN "" ELSE SubSeq(s, i, Len(s))

StartsWithAt(s, i, p) == i + Len(p) - 1 <= Len(s) /\ SubSeq(s, i, i + Len(p) - 1) = p

CharsOf(s) == {At(s, i) : i \in 1..Len(s)}

\* \s of a regular expression, String.prototype.trim and the white space of JSON
IsSpace(c) == c \in {" ", "\n", "\r", "\t"}

Digits == CharsOf("0123456789")

\* \w of a regular expression
WordChars == CharsOf("abcdefghijklmnopqrstuvwxyzABCDEFGHIJKLMNOPQRSTUVWXYZ_") \cup Digits

\* The first of the positions lo..hi that satisfies P (hi + 1: none).
FirstSuch(P(_), lo, hi) ==
  IF \E j \in lo..hi : P(j)
    THEN CHOOSE j \in lo..hi : P(j) /\ \A k \in lo..(j - 1) : ~P(k)
    ELSE hi + 1

\* The last of the positions lo..hi that satisfies P (lo - 1: none).
LastSuch(P(_), lo, hi) ==
  IF \E j \in lo..hi : P(j)
    THEN CHOOSE j \in lo..hi : P(j) /\ \A k \in (j + 1)..hi : ~P(k)
    ELSE lo - 1

\* The first position from i on that holds no white space.
SkipSpace(s, i) ==
  IF i > Len(s) THEN i ELSE FirstSuch(LAMBDA j : ~IsSpace(At(s, j)), i, Len(s))

trimEnd(s) == SubSeq(s, 1, LastSuch(LAMBDA j : ~IsSpace(At(s, j)), 1, Len(s)))

trim(s) == trimEnd(From(s, SkipSpace(s, 1)))

\* The first position from i on where p starts (0: none).
IndexOf(s, p, i) ==
  LET j == FirstSuch(LAMBDA k : StartsWithAt(s, k, p), i, Len(s))
  IN IF j > Len(s) THEN 0 ELSE j

\* The last position up to i where the character c stands (0: none).
LastIndexOf(s, c, i) == LastSuch(LAMBDA k : At(s, k) = c, 1, i)

\* A loop over the characters of s from position i on that appends to its
\* output: Step gives what one pass appends, the position of the next pass
\* and the loop's variables st.  (The passes are taken sixteen at a time.)
RECURSIVE ScanRun(_, _, _, _, _)
ScanRun(Step(_, _, _), s, i, st, stop) ==
  IF i > Len(s) \/ i > stop THEN [out |-> "", i |-> i, st |-> st]
  ELSE LET one == Step(s, i, st)
           rest == ScanRun(Step, s, one.i, one.st, stop)
       IN [out |-> one.out \o rest.out, i |-> rest.i, st |-> rest.st]

RECURSIVE Scan(_, _, _, _)
Scan(Step(_, _, _), s, i, st) ==
  IF i > Len(s) THEN ""
  ELSE LET run == ScanRun(Step, s, i, st, i + 15)
       IN run.out \o Scan(Step, s, run.i, run.st)

Pass(out, i, st) == [out |-> out, i |-> i, st |-> st]

\* --------------------------------------------------------- stripEmotionTags
\* [\w\s,.'!?-]
IsTagChar(c) == c \in WordChars \/ IsSpace(c) \/ c \in {",", ".", "'", "!", "?", "-"}

SkipTagChars(s, i) ==
  IF i > Len(s) THEN i ELSE FirstSuch(LAMBDA j : ~IsTagChar(At(s, j)), i, Len(s))

\* /\s*\[[\w\s,.'!?-]+\]\s*/ matched at position i: the position after the
\* match, 0 if it does not match there.
MatchTag(s, i) ==
  LET Close(open, close) ==
        IF At(s, open) = "[" /\ close > open + 1 /\ At(s, close) = "]"
          THEN SkipSpace(s, close + 1)
          ELSE 0
      Open(open) == Close(open, SkipTagChars(s, open + 1))
  IN Open(SkipSpace(s, i))

\* .replace(/\s*\[[\w\s,.'!?-]+\]\s*/g, " ") at position i
ReplaceTagStep(s, i, st) ==
  LET e == MatchTag(s, i) IN
  IF e # 0 THEN Pass(" ", e, st) ELSE Pass(At(s, i), i + 1, st)

\* .replace(/\s{2,}/g, " ") at position i
CollapseSpacesStep(s, i, st) ==
  LET e == SkipSpace(s, i) IN
  IF e >= i + 2 THEN Pass(" ", e, st) ELSE Pass(At(s, i), i + 1, st)

stripEmotionTags(text) ==
  trim(Scan(CollapseSpacesStep, Scan(ReplaceTagStep, text, 1, FALSE), 1, FALSE))

\* ---------------------------------------------------------- stripCodeFences
\* (a string of this language cannot hold a backquote: ~ stands for it)
Fence == "~~~"

\* (?:json|JSON)? at position i: the position after it
AfterJsonTag(s, i) ==
  IF StartsWithAt(s, i, "json") \/ StartsWithAt(s, i, "JSON") THEN i + 4 ELSE i

\* /```(?:json|JSON)?\s*\n([\s\S]*?)```/ with its opening fence at position
\* i: the content of the group, or no match.  \s* gives back white space up to
\* the last line feed of the run; the group ends before the next fence.
FenceMatchAt(s, i) ==
  LET Group(lf, close) ==
        IF close # 0 THEN [found |-> TRUE, group |-> SubSeq(s, lf + 1, close - 1)]
        ELSE [found |-> FALSE, group |-> ""]
      LineFeed(ws, lf) ==
        IF StartsWithAt(s, i, Fence) /\ lf >= ws THEN Group(lf, IndexOf(s, Fence, lf + 1))
        ELSE [found |-> FALSE, group |-> ""]
      Tag(ws) == LineFeed(ws, LastIndexOf(s, "\n", SkipSpace(s, ws) - 1))
  IN Tag(AfterJsonTag(s, i + 3))

\* s.match(...) : the leftmost position where the expression matches
FenceMatch(s) ==
  FenceMatchAt(s, FirstSuch(LAMBDA i : FenceMatchAt(s, i).found, 1, Len(s)))

\* s.replace(/^```(?:json|JSON)?\s*\n?/, "")
stripOpeningFence(s) ==
  IF StartsWithAt(s, 1, Fence) THEN From(s, SkipSpace(s, AfterJsonTag(s, 4))) ELSE s

\* if (s.endsWith("```")) s = s.slice(0, -3).trimEnd()
stripClosingFence(s) ==
  IF Len(s) >= 3 /\ StartsWithAt(s, Len(s) - 2, Fence)
    THEN trimEnd(SubSeq(s, 1, Len(s) - 3))
    ELSE s

\* stripCodeFences that looks for fences at the two ends only.
stripCodeFencesAtEndsOnly(raw) == stripClosingFence(stripOpeningFence(trim(raw)))

stripCodeFences(raw) ==
  LET Matched(s, fenceMatch) ==
        IF fenceMatch.found THEN trim(fenceMatch.group)
        ELSE stripClosingFence(stripOpeningFence(s))
      Trimmed(s) == Matched(s, FenceMatch(s))
  IN Trimmed(trim(raw))

\* --------------------------------------------------------- fixTrailingCommas
\* json.replace(/,\s*([}\]])/g, "$1") at position i
fixTrailingCommasStep(json, i, st) ==
  LET b == SkipSpace(json, i + 1) IN
  IF At(json, i) = "," /\ At(json, b) \in {"}", "]"}
    THEN Pass(At(json, b), b + 1, st)
    ELSE Pass(At(json, i), i + 1, st)

fixTrailingCommas(json) == Scan(fixTrailingCommasStep, json, 1, FALSE)

\* ------------------------------------------------------- repairJsonNewlines
\* A pass that escapes a line break wherever it stands.
repairJsonNewlinesStepEverywhere(json, i, st) ==
  LET ch == At(json, i) IN
  IF ch = "\n" THEN Pass("\\n", i + 1, st)
  ELSE IF ch = "\r" THEN Pass("\\r", i + 1, st)
  ELSE Pass(ch, i + 1, st)

\* One pass of the loop of repairJsonNewlines.
repairJsonNewlinesStep(json, i, st) ==
  LET ch == At(json, i)
      unescaped == [st EXCEPT !.escaped = FALSE]
  IN IF st.escaped THEN Pass(ch, i + 1, unescaped)
     ELSE IF ch = "\\" THEN Pass(ch, i + 1, [st EXCEPT !.escaped = TRUE])
     ELSE IF ch = "\"" THEN Pass(ch, i + 1, [st EXCEPT !.inString = ~@])
     ELSE IF st.inString /\ ch = "\n" THEN Pass("\\n", i + 1, st)
     ELSE IF st.inString /\ ch = "\r" THEN Pass("\\r", i + 1, st)
     ELSE Pass(ch, i + 1, st)

repairJsonNewlines(json) ==
  Scan(repairJsonNewlinesStep, json, 1, [inString |-> FALSE, escaped |-> FALSE])

\* ---------------------------------------------------------------- JSON.parse
\* The values of JSON, and undefined.
JString(s) == [t |-> "string", s |-> s]
JNumber(s) == [t |-> "number", s |-> s]
JBoolean(b) == [t |-> "boolean", b |-> b]
JNull == [t |-> "null"]
JArray(items) == [t |-> "array", items |-> items]
JObject(members) == [t |-> "object", members |-> members]
Undefined == [t |-> "undefined"]

Parsed(v, i) == [ok |-> TRUE, v |-> v, i |-> i]
SyntaxError == [ok |-> FALSE, v |-> Undefined, i |-> 0]

SkipDigits(s, i) ==
  IF i > Len(s) THEN i ELSE FirstSuch(LAMBDA j : At(s, j) \notin Digits, i, Len(s))

\* number: -? (0 | [1-9][0-9]*) (. [0-9]+)?   (no exponent in the alphabet)
ParseNumber(s, i) ==
  LET Number(int, intEnd, fracEnd) ==
        IF intEnd = int \/ (At(s, intEnd) = "." /\ fracEnd = intEnd + 1)
          THEN SyntaxError
          ELSE Parsed(JNumber(SubSeq(s, i, fracEnd - 1)), fracEnd)
      Fraction(int, intEnd) ==
        Number(int, intEnd,
               IF At(s, intEnd) = "." THEN SkipDigits(s, intEnd + 1) ELSE intEnd)
      Integer(int) ==
        Fraction(int, IF At(s, int) = "0" THEN int + 1 ELSE SkipDigits(s, int))
  IN Integer(IF At(s, i) = "-" THEN i + 1 ELSE i)

\* The character an escape sequence \e stands for ("": not an escape).
\* (\b, \f and \uXXXX are outside the alphabet.)
Unescape(e) ==
  CASE e \in {"\"", "\\", "/"} -> e
    [] e = "n" -> "\n"
    [] e = "r" -> "\r"
    [] e = "t" -> "\t"
    [] OTHER -> ""

\* The backslashes that stand in a row right before position j, from lo on.
BackslashesBefore(s, lo, j) == j - 1 - LastSuch(LAMBDA k : At(s, k) # "\\", lo, j - 1)

\* The character at position j of the literal that begins at lo is escaped.
IsEscaped(s, lo, j) == BackslashesBefore(s, lo, j) % 2 = 1

\* One character or escape sequence of a string literal.
UnescapeStep(s, i, st) ==
  IF At(s, i) = "\\" THEN Pass(Unescape(At(s, i + 1)), i + 2, st)
  ELSE Pass(At(s, i), i + 1, st)

\* The string literal whose first character is at position i: it ends at the
\* first quote that is not escaped, and holds no control character and no
\* escape sequence other than those of Unescape.
ParseChars(s, i) ==
  LET Lawful(close) ==
        \A j \in i..(close - 1) :
          /\ At(s, j) \notin {"\n", "\r", "\t"}
          /\ (At(s, j) = "\\" /\ ~IsEscaped(s, i, j))
               => Unescape(At(s, j + 1)) # ""
      Literal(close) ==
        IF close > Len(s) \/ ~Lawful(close) THEN SyntaxError
        ELSE Parsed(JString(Scan(UnescapeStep, SubSeq(s, i, close - 1), 1, FALSE)), close + 1)
  IN Literal(FirstSuch(LAMBDA j : At(s, j) = "\"" /\ ~IsEscaped(s, i, j), i, Len(s)))

RECURSIVE ParseValue(_, _), ParseItems(_, _, _), ParseMembers(_, _, _)

\* A value, with white space before it, from position i0 on.
ParseValue(s, i0) ==
  LET Empty(close, v) == Parsed(v, close + 1)
      Composite(i, close, closer, v) ==
        IF At(s, close) = closer THEN Empty(close, v)
        ELSE IF closer = "}" THEN ParseMembers(s, i + 1, <<>>)
        ELSE ParseItems(s, i + 1, <<>>)
      Value(i, c) ==
        CASE c = "{" -> Composite(i, SkipSpace(s, i + 1), "}", JObject(<<>>))
          [] c = "[" -> Composite(i, SkipSpace(s, i + 1), "]", JArray(<<>>))
          [] c = "\"" -> ParseChars(s, i + 1)
          [] c = "-" \/ c \in Digits -> ParseNumber(s, i)
          [] StartsWithAt(s, i, "true") -> Parsed(JBoolean(TRUE), i + 4)
          [] StartsWithAt(s, i, "false") -> Parsed(JBoolean(FALSE), i + 5)
          [] StartsWithAt(s, i, "null") -> Parsed(JNull, i + 4)
          [] OTHER -> SyntaxError
      ValueAt(i) == Value(i, At(s, i))
  IN ValueAt(SkipSpace(s, i0))

\* The elements of an array from position i on, acc those read so far.
ParseItems(s, i, acc) ==
  LET Next(next, items) ==
        IF At(s, next) = "," THEN ParseItems(s, next + 1, items)
        ELSE IF At(s, next) = "]" THEN Parsed(JArray(items), next + 1)
        ELSE SyntaxError
      After(item) ==
        IF ~item.ok THEN SyntaxError
        ELSE Next(SkipSpace(s, item.i), Append(acc, item.v))
  IN After(ParseValue(s, i))

\* The members of an object from position i on, acc those read so far.
ParseMembers(s, i, acc) ==
  LET Next(next, members) ==
        IF At(s, next) = "," THEN ParseMembers(s, next + 1, members)
        ELSE IF At(s, next) = "}" THEN Parsed(JObject(members), next + 1)
        ELSE SyntaxError
      AfterValue(key, val) ==
        IF ~val.ok THEN SyntaxError
        ELSE Next(SkipSpace(s, val.i), Append(acc, [key |-> key.v.s, value |-> val.v]))
      Colon(key, colon) ==
        IF At(s, colon) = ":" THEN AfterValue(key, ParseValue(s, colon + 1))
        ELSE SyntaxError
      AfterKey(key) ==
        IF ~key.ok THEN SyntaxError ELSE Colon(key, SkipSpace(s, key.i))
      Key(k) ==
        IF At(s, k) = "\"" THEN AfterKey(ParseChars(s, k + 1)) ELSE SyntaxError
  IN Key(SkipSpace(s, i))

\* JSON.parse(text): the value, or a SyntaxError thrown.
JSONparse(text) ==
  LET Whole(r) ==
        IF r.ok /\ SkipSpace(text, r.i) = Len(text) + 1 THEN r ELSE SyntaxError
  IN Whole(ParseValue(text, 1))

\* value.name : the last member of that name, undefined on anything else
RECURSIVE GetFrom(_, _, _)
GetFrom(members, name, i) ==
  IF i < 1 THEN Undefined
  ELSE IF members[i].key = name THEN members[i].value
  ELSE GetFrom(members, name, i - 1)

Get(value, name) ==
  IF value.t = "object" THEN GetFrom(value.members, name, Len(value.members))
  ELSE Undefined

\* if (parsed)
Truthy(v) ==
  CASE v.t \in {"object", "array"} -> TRUE
    [] v.t = "string" -> v.s # ""
    [] v.t = "number" -> CharsOf(v.s) \cap (Digits \ {"0"}) # {}
    [] v.t = "boolean" -> v.b
    [] OTHER -> FALSE

\* ---------------------------------------------------- parseProofreadResponse
\* ProofreadResult; error <<>>: no error field
Result(text, voice, changes, unchanged, error) ==
  [corrected_text |-> text, corrected_voice |-> voice, changes |-> changes,
   unchanged |-> unchanged, error |-> error]

NoError == <<>>

NoResult == Result("", "", <<>>, FALSE, NoError)

\* stripped.match(/(\{[\s\S]*\})/)?.[1]?.trim() ?? stripped.trim()
extractJson(stripped) ==
  LET Braces(open, close) ==
        IF open # 0 /\ close > open
          THEN trim(SubSeq(stripped, open, close))
          ELSE trim(stripped)
  IN Braces(IndexOf(stripped, "{", 1), LastIndexOf(stripped, "}", Len(stripped)))

\* The candidates with the repaired texts tried before the text as it is.
candidatesRepairsFirst(jsonStr) ==
  <<repairJsonNewlines(fixTrailingCommas(jsonStr)),
    fixTrailingCommas(jsonStr),
    repairJsonNewlines(jsonStr),
    jsonStr>>

\* The texts JSON.parse is tried on, in order.
candidates(jsonStr) ==
  <<jsonStr,
    fixTrailingCommas(jsonStr),
    repairJsonNewlines(jsonStr),
    repairJsonNewlines(fixTrailingCommas(jsonStr))>>

IsString(v) == v.t = "string"

\* The voice text taken without a look at the legacy field.
correctedVoiceNoLegacy(parsed, originalText) ==
  IF IsString(Get(parsed, "corrected_voice")) THEN Get(parsed, "corrected_voice").s
  ELSE originalText

correctedVoice(parsed, originalText) ==
  IF IsString(Get(parsed, "corrected_voice")) THEN Get(parsed, "corrected_voice").s
  ELSE IF IsString(Get(parsed, "corrected")) THEN Get(parsed, "corrected").s
  ELSE originalText

\* The display text taken from the voice text whatever the reply holds.
correctedTextFromVoice(parsed, voice) == stripEmotionTags(voice)

correctedText(parsed, voice) ==
  IF IsString(Get(parsed, "corrected_text")) THEN Get(parsed, "corrected_text").s
  ELSE stripEmotionTags(voice)

\* items.filter((c) => typeof c === "string") from position i on
RECURSIVE StringsFrom(_, _)
StringsFrom(items, i) ==
  IF i > Len(items) THEN <<>>
  ELSE IF IsString(items[i]) THEN <<items[i].s>> \o StringsFrom(items, i + 1)
  ELSE StringsFrom(items, i + 1)

changesOf(parsed) ==
  IF Get(parsed, "changes").t = "array"
    THEN StringsFrom(Get(parsed, "changes").items, 1)
    ELSE <<>>

\* parsed.unchanged === true
unchangedOf(parsed) == Get(parsed, "unchanged") = JBoolean(TRUE)

\* The result built from a parsed reply.
parsedResult(parsed, originalText) ==
  LET voice == correctedVoice(parsed, originalText) IN
  Result(correctedText(parsed, voice), voice, changesOf(parsed),
         unchangedOf(parsed), NoError)

\* The failure result of the earlier parser: the raw reply as the correction.
failureResultFromRaw(raw, stripped, originalText) ==
  LET cleaned == IF trim(raw) # "" THEN trim(raw) ELSE originalText IN
  Result(stripEmotionTags(cleaned), cleaned,
         <<"(could not parse structured response)">>, FALSE, NoError)

\* The result when no candidate gave a usable value.
failureResult(raw, stripped, originalText) ==
  Result(stripEmotionTags(originalText), originalText, <<>>, TRUE,
         <<"JSON parse failed", Len(raw), Len(stripped)>>)

\* The value of the first candidate JSON.parse accepts (undefined: none).
RECURSIVE firstParsed(_, _)
firstParsed(cands, i) ==
  LET Tried(r) == IF r.ok THEN r.v ELSE firstParsed(cands, i + 1)
  IN IF i > Len(cands) THEN Undefined ELSE Tried(JSONparse(cands[i]))

parseProofreadResponse(raw, originalText) ==
  LET Built(stripped, parsed) ==
        IF Truthy(parsed) THEN parsedResult(parsed, originalText)
        ELSE failureResult(raw, stripped, originalText)
      Stripped(stripped) ==
        Built(stripped, firstParsed(candidates(extractJson(stripped)), 1))
  IN Stripped(stripCodeFences(raw))

\* ------------------------------------------------------------ model replies
\* JSON.stringify of a string; keepLf: line feeds are left as they are, as a
\* model that breaks lines inside a string value writes them.
EscapeStep(s, i, keepLf) ==
  LET c == At(s, i)
      e == CASE c = "\"" -> "\\\""
             [] c = "\\" -> "\\\\"
             [] c = "\n" -> IF keepLf THEN "\n" ELSE "\\n"
             [] c = "\r" -> "\\r"
             [] c = "\t" -> "\\t"
             [] OTHER -> c
  IN Pass(e, i + 1, keepLf)

Quote(s, keepLf) == "\"" \o Scan(EscapeStep, s, 1, keepLf) \o "\""

RECURSIVE JoinFrom(_, _, _)
JoinFrom(parts, i, sep) ==
  IF i > Len(parts) THEN ""
  ELSE IF i = Len(parts) THEN parts[i]
  ELSE parts[i] \o sep \o JoinFrom(parts, i + 1, sep)

\* The reply that states the result o.  pretty: one member per line;
\* commas: a comma after the last element and the last member; keepLf: line
\* feeds inside string values unescaped.
Reply(o, pretty, commas, keepLf) ==
  LET colon == IF pretty THEN ": " ELSE ":"
      sep == IF pretty THEN ",\n  " ELSE ","
      items == [i \in 1..Len(o.changes) |-> Quote(o.changes[i], keepLf)]
      array == "[" \o JoinFrom(items, 1, ",")
                   \o (IF commas /\ items # <<>> THEN "," ELSE "") \o "]"
      members ==
        <<"\"corrected_text\"" \o colon \o Quote(o.corrected_text, keepLf),
          "\"corrected_voice\"" \o colon \o Quote(o.corrected_voice, keepLf),
          "\"changes\"" \o colon \o array,
          "\"unchanged\"" \o colon \o (IF o.unchanged THEN "true" ELSE "false")>>
  IN (IF pretty THEN "{\n  " ELSE "{")
       \o JoinFrom(members, 1, sep)
       \o (IF commas THEN "," ELSE "")
       \o (IF pretty THEN "\n}" ELSE "}")

\* The ways a reply is wrapped: bare, in a json fence, in a fence after a
\* preamble, and in a fence that is never closed.
Wrappings == {"bare", "fenced", "preamble", "open"}

Wrap(json, how) ==
  CASE how = "bare" -> json
    [] how = "fenced" -> Fence \o "json\n" \o json \o "\n" \o Fence
    [] how = "preamble" -> "Here is the corrected text:\n" \o Fence \o "json\n" \o json \o "\n" \o Fence
    [] how = "open" -> Fence \o "json\n" \o json

\* String values of replies: plain, with emotion tags and a line feed, with
\* a quote and a backslash, and with a comma before a closing bracket.
PlainValues == {"ok", "[soft] Line one.\n[whispers] Line two.", "say \"hi\" \\ bye"}
CommaValues == {"a, }b", "x,]"}

PlainObjects ==
  {Result(t, v, c, u, NoError) :
     t \in {"ok", "Line one."}, v \in PlainValues,
     c \in {<<>>, <<"fix">>, <<"word order", "gender\nfix">>}, u \in BOOLEAN}

CommaObjects ==
  {Result("ok", v, c, u, NoError) :
     v \in CommaValues, c \in {<<>>, <<"fix,]">>}, u \in BOOLEAN}
     \cup {Result(t, "ok", <<>>, FALSE, NoError) : t \in CommaValues}

\* ... and with braces and a fence.
FenceObjects == {Result("ok", "a } ~~~json {", <<"~~~">>, FALSE, NoError)}

Objects == PlainObjects \cup CommaObjects \cup FenceObjects

\* A reply together with the result it states.
Stated(o, pretty, commas, keepLf, how) ==
  [raw |-> Wrap(Reply(o, pretty, commas, keepLf), how), o |-> o,
   commas |-> commas, keepLf |-> keepLf, how |-> how]

WellFormedReplies ==
  {Stated(o, pretty, FALSE, FALSE, "bare") : o \in Objects, pretty \in BOOLEAN}

MalformedReplies ==
  {Stated(o, pretty, commas, keepLf, "bare") :
     o \in Objects, pretty \in BOOLEAN, commas \in BOOLEAN, keepLf \in BOOLEAN}
    \ WellFormedReplies

WrappedReplies ==
  {Stated(o, TRUE, commas, keepLf, how) :
     o \in PlainObjects, commas \in BOOLEAN, keepLf \in BOOLEAN,
     how \in Wrappings \ {"bare"}}

\* Every string of up to MaxFreeLen characters of FreeAlphabet.
MaxFreeLen == 3

FreeAlphabet == CharsOf("{}[],\"\na01")

RECURSIVE FreeStrings(_)
FreeStrings(n) ==
  IF n = 0 THEN {""}
  ELSE LET shorter == FreeStrings(n - 1) IN
       shorter \cup {s \o c : s \in shorter, c \in FreeAlphabet}

\* Replies that are no JSON, or JSON of another shape.
OtherReplies ==
  {"not json at all", "null", "false", "{\"corrected\":\"fixed\",\"changes\":[\"fix\"],\"unchanged\":false}",
   "{\"unchanged\":false}", "{\"corrected_text\":\"new\",\"changes\":[1,\"a\",null]}",
   "[\"corrected_voice\"]", "42", "\"corrected\"", "{\"unchanged\":\"true\"}",
   "{\"unchanged\":1}", "{\"corrected_voice\":7,\"corrected\":\"[soft] old\",\"unchanged\":true}"}

Replies ==
  {w.raw : w \in WellFormedReplies \cup MalformedReplies \cup WrappedReplies}
    \cup FreeStrings(MaxFreeLen) \cup OtherReplies

\* The texts given to the proofreader, each with its display form.
Originals ==
  {[text |-> "original text", clean |-> "original text"],
   [text |-> "[whispers] hello [laughs] world", clean |-> "hello world"]}

\* ------------------------------------------------------------ proofreadText
\* An optional value: absent, or present.
None == <<>>
Some(x) == <<x>>

RECENT_OUTBOUND_CAP == 3
MIN_PROOFREAD_LENGTH == 20

\* setTimeout(r, 2000) before the retry
RetryDelayMs == 2000
RetryTickMs == RetryDelayMs \div 2

\* Completion calls of one attempt are counted up to this many.
MaxCompletes == 3

\* ReplyPayload: text, mediaUrl and mediaUrls are optional.
ReplyPayload(text, mediaUrl, mediaUrls) ==
  [text |-> text, mediaUrl |-> mediaUrl, mediaUrls |-> mediaUrls]

\* cfg.messages?.proofread
ProofreadConfig(auto) == [proofread |-> Some([auto |-> auto])]
NoProofreadConfig == [proofread |-> None]

\* The message complete() resolves with: its content is a list of parts.
Message(stopReason, errorMessage, content) ==
  [stopReason |-> stopReason, errorMessage |-> errorMessage, content |-> content]

TextPart(text) == [type |-> "text", text |-> text]
ThinkingPart(text) == [type |-> "thinking", text |-> text]

\* message.content.filter(type === "text").map(text).join("") from part i on
RECURSIVE textOfFrom(_, _)
textOfFrom(content, i) ==
  IF i > Len(content) THEN ""
  ELSE (IF content[i].type = "text" THEN content[i].text ELSE "")
         \o textOfFrom(content, i + 1)

\* message.errorMessage?.includes("429")
rateLimited(message) ==
  /\ message.errorMessage # None
  /\ IndexOf(message.errorMessage[1], "429", 1) # 0

\* What proofreadText does with the message of the first completion call.
afterComplete(message) ==
  IF message.stopReason = "error" /\ rateLimited(message) THEN "retry" ELSE "finish"

\* What proofreadText does with the message of the retry.
\* proofreadText retrying for as long as the rate limit is reported.
afterRetryLoops(message) ==
  IF message.stopReason = "error" /\ rateLimited(message) THEN "retry" ELSE "finish"

afterRetry(message) == "finish"

\* The result when no usable reply was obtained, with its diagnostic.
errorResult(text, diagnostic) ==
  Result(stripEmotionTags(text), text, <<>>, TRUE, <<diagnostic>>)

\* proofreadText from "if (message.stopReason === "error")" on.
completionResult(message, text) ==
  LET responseText == trim(textOfFrom(message.content, 1)) IN
  IF message.stopReason = "error"
    THEN errorResult(text, IF message.errorMessage = None
                             THEN "Cloud model returned an error"
                             ELSE message.errorMessage[1])
  ELSE IF responseText = "" THEN errorResult(text, "Cloud model returned no text")
  ELSE parseProofreadResponse(responseText, text)

\* ---------------------------------------------------- recent outbound ring
SessionKeys == {"s1", "s2"}

\* A push that turns away the new text when the ring is full.
pushOutboundTextKeepsOldest(ring, sessionKey, text) ==
  LET buf == Append(ring[sessionKey], text) IN
  [ring EXCEPT ![sessionKey] =
     IF Len(buf) > RECENT_OUTBOUND_CAP THEN SubSeq(buf, 1, RECENT_OUTBOUND_CAP) ELSE buf]

pushOutboundText(ring, sessionKey, text) ==
  LET buf == Append(ring[sessionKey], text) IN
  [ring EXCEPT ![sessionKey] =
     IF Len(buf) > RECENT_OUTBOUND_CAP THEN Tail(buf) ELSE buf]

\* `[${i + 1}] ${t.slice(0, 200)}`
contextLine(buf, i) ==
  (CASE i = 1 -> "[1] " [] i = 2 -> "[2] " [] OTHER -> "[3] ")
    \o SubSeq(buf[i], 1, Min(200, Len(buf[i])))

\* getRecentOutboundContext listing the newest text first.
getRecentOutboundContextNewestFirst(ring, sessionKey) ==
  IF ring[sessionKey] = <<>> THEN None
  ELSE Some("Recent messages in this conversation (check for repetitive openings):\n"
              \o JoinFrom([i \in 1..Len(ring[sessionKey]) |->
                             contextLine(ring[sessionKey], Len(ring[sessionKey]) + 1 - i)],
                          1, "\n"))

getRecentOutboundContext(ring, sessionKey) ==
  IF ring[sessionKey] = <<>> THEN None
  ELSE Some("Recent messages in this conversation (check for repetitive openings):\n"
              \o JoinFrom([i \in 1..Len(ring[sessionKey]) |-> contextLine(ring[sessionKey], i)],
                          1, "\n"))

\* ---------------------------------------------------- maybeProofreadPayload
\* params: payload, cfg, agentDir?, sessionKey?
Params(payload, cfg, agentDir, sessionKey) ==
  [payload |-> payload, cfg |-> cfg, agentDir |-> agentDir, sessionKey |-> sessionKey]

\* if (!proofCfg?.auto)
autoEnabled(cfg) == cfg.proofread # None /\ cfg.proofread[1].auto

\* params.payload.text?.trim()
trimmedText(payload) ==
  IF payload.text = None THEN None ELSE Some(trim(payload.text[1]))

\* The guard that takes no account of the length of the text.
guardNoMinimum(params) ==
  IF ~autoEnabled(params.cfg) THEN "disabled"
  ELSE IF trimmedText(params.payload) = None THEN "short"
  ELSE IF trimmedText(params.payload)[1] = "" THEN "short"
  ELSE IF params.agentDir = None THEN "noAgentDir"
  ELSE "proofread"

\* The guard of maybeProofreadPayload: why it returns at once, or "proofread".
guard(params) ==
  IF ~autoEnabled(params.cfg) THEN "disabled"
  ELSE IF trimmedText(params.payload) = None THEN "short"
  ELSE IF trimmedText(params.payload)[1] = "" THEN "short"
  ELSE IF Len(trimmedText(params.payload)[1]) < MIN_PROOFREAD_LENGTH THEN "short"
  ELSE IF params.agentDir = None THEN "noAgentDir"
  ELSE "proofread"

\* if (result.error)
errorSet(result) == result.error # NoError /\ result.error[1] # ""

\* What maybeProofreadPayload makes of the result of proofreadText.
attemptOutcome(result) ==
  IF errorSet(result) THEN "error"
  ELSE IF result.unchanged THEN "unchanged"
  ELSE "corrected"

\* The combined text without the line feed between display and directive.
combinedNoLineFeed(result) ==
  result.corrected_text \o "[[tts:text]]" \o result.corrected_voice \o "[[/tts:text]]"

\* `${result.corrected_text}\n[[tts:text]]${result.corrected_voice}[[/tts:text]]`
combined(result) ==
  result.corrected_text \o "\n[[tts:text]]" \o result.corrected_voice \o "[[/tts:text]]"

\* What the promise of maybeProofreadPayload settles with: the payload
\* object it was given, a new payload object, or a rejection.
SamePayload(payload) == [kind |-> "same", payload |-> payload]
NewPayload(payload) == [kind |-> "new", payload |-> payload]
Rejected(payload) == [kind |-> "rejected", payload |-> payload]

\* An exception that leaves maybeProofreadPayload.
uncaught(payload) == Rejected(payload)

\* catch (err) { ...; return params.payload }
caught(payload) == SamePayload(payload)

\* The calls of maybeProofreadPayload that are followed.
ProofCalls == {"c1", "c2"}

NoParams == Params(ReplyPayload(None, None, None), NoProofreadConfig, None, None)

\* pc: where the call stands; text: the trimmed text; context: what was read
\* from the ring; completes: the completion calls made; first: the message
\* of the first completion call; second: the message of the retry; wait: ms left of the back-off; waited: ms
\* spent in it; why: how the attempt ended; settled: what was returned
IdleAttempt ==
  [pc |-> "idle", params |-> NoParams, text |-> "", context |-> None,
   completes |-> 0, first |-> None, second |-> None, wait |-> 0, waited |-> 0,
   result |-> None, why |-> "none", settled |-> None]

\* ------------------------------------------------------------ tts directives
\* The i flag of a regular expression: letters are compared in lower case.
UpperLetters == "ABCDEFGHIJKLMNOPQRSTUVWXYZ"
LowerLetters == "abcdefghijklmnopqrstuvwxyz"

LowerOf(c) ==
  IF \E k \in 1..Len(UpperLetters) : At(UpperLetters, k) = c
    THEN At(LowerLetters, CHOOSE k \in 1..Len(UpperLetters) : At(UpperLetters, k) = c)
    ELSE c

\* The text p (in lower case) stands at position i of s, whatever the case.
MatchesAt(s, i, p) ==
  /\ i >= 1
  /\ i + Len(p) - 1 <= Len(s)
  /\ \A k \in 1..Len(p) : LowerOf(At(s, i + k - 1)) = At(p, k)

\* \[\[tts:text\]\]
OpenToken == "[[tts:text]]"

\* \/tts:text\]\]
CloseTail == "/tts:text]]"

\* \[{1,2}\/tts:text\]\] matched at position j: the position after the
\* match, 0 if it does not match there.
ClosesAt(s, j) ==
  IF At(s, j) = "[" /\ At(s, j + 1) = "[" /\ MatchesAt(s, j + 2, CloseTail)
    THEN j + 2 + Len(CloseTail)
  ELSE IF At(s, j) = "[" /\ MatchesAt(s, j + 1, CloseTail)
    THEN j + 1 + Len(CloseTail)
  ELSE 0

NoSpan == [found |-> FALSE, inner |-> "", end |-> 0]

\* /\[\[tts:text\]\]([\s\S]*?)\[{1,2}\/tts:text\]\]/i with its opening token
\* at position i: the group is the shortest text up to a closing token.
TtsSpanAt(s, i) ==
  LET Closed(j) ==
        IF j > Len(s) THEN NoSpan
        ELSE [found |-> TRUE,
              inner |-> SubSeq(s, i + Len(OpenToken), j - 1),
              end |-> ClosesAt(s, j)]
  IN IF MatchesAt(s, i, OpenToken)
       THEN Closed(FirstSuch(LAMBDA j : ClosesAt(s, j) # 0, i + Len(OpenToken), Len(s)))
       ELSE NoSpan

\* .replace(/.../gi, "") at position i
removeTtsStep(s, i, st) ==
  LET Span(m) == IF m.found THEN Pass("", m.end, st) ELSE Pass(At(s, i), i + 1, st)
  IN Span(TtsSpanAt(s, i))

\* text.replace(/\[\[tts:text\]\][\s\S]*?\[{1,2}\/tts:text\]\]/gi, "").trim()
cleanText(text) == trim(Scan(removeTtsStep, text, 1, FALSE))

\* The display text with no fallback to the original text.
cleanedOnly(cleaned, text) == cleaned

\* cleaned || payload.text
cleanedOr(cleaned, text) == IF cleaned # "" THEN cleaned ELSE text

stripTtsDirectivesForDisplay(payload) ==
  IF payload.text = None THEN SamePayload(payload)
  ELSE IF payload.text[1] = "" THEN SamePayload(payload)
  ELSE NewPayload([payload EXCEPT
                     !.text = Some(cleanedOr(cleanText(payload.text[1]), payload.text[1]))])

\* params.text.match(...): the leftmost span
voiceBlockMatch(text) ==
  TtsSpanAt(text, FirstSuch(LAMBDA i : TtsSpanAt(text, i).found, 1, Len(text)))

\* voiceBlockMatch?.[1]?.trim() || undefined
voiceHint(text) ==
  LET Hint(inner) == IF inner # "" THEN Some(inner) ELSE None
      Matched(m) == IF m.found THEN Hint(trim(m.inner)) ELSE None
  IN Matched(voiceBlockMatch(text))

\* A call of the decoders: the payload they are given, the display and voice
\* texts and the closing token it was written from (if it was), and what each
\* decoder returned.
DcIdle ==
  [pc |-> "none", payload |-> ReplyPayload(None, None, None),
   display |-> None, voice |-> None, closing |-> None,
   shown |-> None, hint |-> None, clean |-> None]

\* ------------------------------------------------- the parser, step by step
\* A call of one of the text functions of the parser: its name, its argument
\* and what it returned.
FnIdle == [name |-> "none", arg |-> "", out |-> None]

PrIdle ==
  [pc |-> "none", raw |-> "", originalText |-> "", stripped |-> "",
   jsonStr |-> "", tried |-> 0, parsed |-> Undefined, result |-> NoResult]

\* ------------------------------------------------------------------- state
VARIABLES
  activeMessageId,  \* 0: null
  pendingText,      \* Null: null
  lastSentText,
  debounceTimer,    \* 0: undefined, else the id of a timer
  stopped,
  timers,           \* the event loop's scheduled timers: [id, remaining]
  net,              \* remote calls in flight
  call,             \* the caller's current (or last) call into the tracker
  ev,               \* the step just taken: its operation, the remote calls it
                    \* issued and, for a call, the kind of payload it was given
                    \* (for a send that settles: how it settled)
  hist              \* history: what the tracker has been given so far

VARIABLES
  overlapping       \* a call of handleToolUpdate made while the caller's call
                    \* is awaiting its send

VARIABLES
  pr                \* a call of parseProofreadResponse: its arguments, its
                    \* locals and its result

VARIABLES
  attempt,          \* the calls of maybeProofreadPayload: where each stands
  recentOutbound,   \* the ring: session key -> the texts last sent
  pushed            \* history: session key -> every text pushed for it

VARIABLES
  dc,               \* a call of the directive decoders on one payload
  fn                \* a call of a text function of the parser on one text

trackerVars == <<activeMessageId, pendingText, lastSentText, debounceTimer,
                 stopped, timers, net, call, ev, hist, overlapping>>

parserVars == <<pr>>

ringVars == <<recentOutbound, pushed>>

attemptVars == <<attempt, ringVars>>

codecVars == <<dc, fn>>

proofreading == <<parserVars, attemptVars, codecVars>>

vars == <<trackerVars, proofreading>>

tracker == <<activeMessageId, pendingText, lastSentText, debounceTimer, stopped>>

\* opts.textLimit, as the tracker is constructed
textLimit == 4096

NoPre == [active |-> 0, pending |-> Null, last |-> EmptyText, stopped |-> FALSE,
          received |-> 0, sentId |-> 0, created |-> {}]

IdleCall == [pc |-> "idle", op |-> "none", payload |-> NoPayload,
             result |-> "none", log |-> <<>>, res |-> <<>>, pre |-> NoPre]

\* received: handleToolUpdate calls since the last cleanup() (2: two or more)
\* sentId:   id returned by the creating send since the last cleanup()
\* stopCalled: stop() was called and cleanup() has not been called since
\* n/last/base/edits/body: the current burst of buffered updates (each less
\*   than DEBOUNCE_MS after the one before): how many there were (2: two or
\*   more), the text of the last one, lastSentText when it arrived, the edits
\*   the debounce has issued since the burst began and the body of the last
\* fired: how often the debounce callback has run since the burst began (2:
\*   twice or more)
\* since: ms since the last buffered update or stop(), up to DEBOUNCE_MS
\* shown: the text the transport last accepted for the tracked message (by
\*   the creating send or by an edit), Null while there is none
\* sends: sends issued since the last cleanup() (2: two or more)
\* noId: a send has settled without a message id since the last cleanup()
\* latest: the text of the latest update that was sent or buffered since the
\*   last cleanup(), Null while there is none
\* overlap: the text now buffered arrived while an edit was in flight
\* created: the ids the sends have returned since the last cleanup()
NoHist == [received |-> 0, sentId |-> 0, stopCalled |-> FALSE,
           n |-> 0, last |-> Null, base |-> EmptyText, edits |-> 0,
           body |-> NoBody, fired |-> 0, since |-> 0, shown |-> Null,
           sends |-> 0, noId |-> FALSE, latest |-> Null, overlap |-> FALSE,
           created |-> {}]

Event(op, calls, kind) == [op |-> op, calls |-> calls, kind |-> kind]

\* The tracker as createToolUpdateTracker returns it.
TrackerIdle ==
  /\ activeMessageId = 0
  /\ pendingText = Null
  /\ lastSentText = EmptyText
  /\ debounceTimer = 0
  /\ stopped = FALSE
  /\ timers = {}
  /\ net = EmptyBag
  /\ call = IdleCall
  /\ overlapping = IdleCall
  /\ ev = Event("init", <<>>, "none")
  /\ hist = NoHist

\* No call of maybeProofreadPayload was made and the ring is empty.
AttemptsIdle ==
  /\ attempt = [c \in ProofCalls |-> IdleAttempt]
  /\ recentOutbound = [k \in SessionKeys |-> <<>>]
  /\ pushed = [k \in SessionKeys |-> <<>>]

Init ==
  /\ TrackerIdle
  /\ pr = PrIdle
  /\ AttemptsIdle
  /\ dc = DcIdle
  /\ fn = FnIdle

\* ------------------------------------------------------------------ timers
\* clearTimeout that cancels nothing.
clearTimeoutKeeps(ts, handle) == ts

clearTimeout(ts, handle) == {t \in ts : t.id # handle}

\* setTimeout(fn, ms): schedules a timer under an id no scheduled timer has.
setTimeout(ts, ms) ==
  LET used == {t.id : t \in ts}
      id == CHOOSE n \in 1..(Cardinality(ts) + 1) : n \notin used
  IN [timers |-> ts \cup {[id |-> id, remaining |-> ms]}, handle |-> id]

\* resetDebounce that schedules the new timer and leaves the old one running.
resetDebounceNoClear(ts, handle) == setTimeout(ts, DEBOUNCE_MS)

resetDebounce(ts, handle) ==
  setTimeout(IF handle # 0 THEN clearTimeout(ts, handle) ELSE ts, DEBOUNCE_MS)

\* -------------------------------------------------------- handleToolUpdate
\* The branch handleToolUpdate takes.
\* handleToolUpdate without its check of the stopped flag.
handleToolUpdatePathNoStopCheck(isStopped, payload, active) ==
  IF hasMedia(payload) THEN "deliver"
  ELSE IF Trim(TextOrEmpty(payload.text)) = EmptyText THEN "empty"
  ELSE IF active = 0 THEN "send"
  ELSE "buffer"

\* handleToolUpdate sending every text update as a new message.
handleToolUpdatePathAlwaysSends(isStopped, payload, active) ==
  IF isStopped THEN "ignore"
  ELSE IF hasMedia(payload) THEN "deliver"
  ELSE IF Trim(TextOrEmpty(payload.text)) = EmptyText THEN "empty"
  ELSE "send"

\* handleToolUpdate buffering a text that is blank.
handleToolUpdatePathBuffersBlank(isStopped, payload, active) ==
  IF isStopped THEN "ignore"
  ELSE IF hasMedia(payload) THEN "deliver"
  ELSE IF active = 0 THEN
    IF Trim(TextOrEmpty(payload.text)) = EmptyText THEN "empty" ELSE "send"
  ELSE "buffer"

handleToolUpdatePath(isStopped, payload, active) ==
  IF isStopped THEN "ignore"
  ELSE IF hasMedia(payload) THEN "deliver"
  ELSE IF Trim(TextOrEmpty(payload.text)) = EmptyText THEN "empty"
  ELSE IF active = 0 THEN "send"
  ELSE "buffer"

Started(op, payload, pre) ==
  [pc |-> "idle", op |-> op, payload |-> payload, result |-> "none",
   log |-> <<>>, res |-> <<>>, pre |-> pre]

HandleToolUpdate(payload) ==
  /\ call.pc = "idle"
  /\ BagCardinality(net) <= MaxInflight
  /\ LET path == handleToolUpdatePath(stopped, payload, activeMessageId)
         text == TextOrEmpty(payload.text)
         me == Started("handleToolUpdate", payload, NoPre)
         h1 == [hist EXCEPT !.received = Min(@ + 1, 2)]
         kind == PayloadKind(payload)
         continues == hist.last # Null /\ hist.since < DEBOUNCE_MS
     IN
     CASE path \in {"ignore", "empty"} ->
            /\ call' = [me EXCEPT !.result = "returned", !.payload = NoPayload]
            /\ ev' = Event("handleToolUpdate", <<>>, kind)
            /\ hist' = h1
            /\ UNCHANGED <<tracker, timers, net>>
       [] path = "deliver" ->
            LET r == Remote("deliver", 0, NoBody, payload, "handleToolUpdate") IN
            /\ net' = Issue(net, r)
            /\ call' = [me EXCEPT !.pc = "awaitDeliver", !.log = <<r>>]
            /\ ev' = Event("handleToolUpdate", <<r>>, kind)
            /\ hist' = h1
            /\ UNCHANGED <<tracker, timers>>
       [] path = "send" ->
            LET r == Remote("send", 0, PlainBody(truncateText(text, textLimit)),
                            NoPayload, "handleToolUpdate") IN
            /\ net' = Issue(net, r)
            /\ call' = [me EXCEPT !.pc = "awaitSend", !.log = <<r>>]
            /\ ev' = Event("handleToolUpdate", <<r>>, kind)
            /\ hist' = [h1 EXCEPT !.sends = Min(@ + 1, 2), !.latest = text]
            /\ UNCHANGED <<tracker, timers>>
       [] path = "buffer" ->
            LET d == resetDebounce(timers, debounceTimer) IN
            /\ pendingText' = text
            /\ timers' = d.timers
            /\ debounceTimer' = d.handle
            /\ call' = [me EXCEPT !.result = "returned", !.payload = NoPayload]
            /\ ev' = Event("handleToolUpdate", <<>>, kind)
            /\ hist' = [h1 EXCEPT !.n = IF continues THEN Min(@ + 1, 2) ELSE 1,
                                  !.last = text, !.base = lastSentText,
                                  !.edits = IF continues THEN @ ELSE 0,
                                  !.body = IF continues THEN @ ELSE NoBody,
                                  !.fired = IF continues THEN @ ELSE 0,
                                  !.since = 0,
                                  !.latest = text,
                                  !.overlap = \E e \in InFlight(net) : e.kind = "edit"]
            /\ UNCHANGED <<activeMessageId, lastSentText, stopped, net>>

\* await opts.deliverReplies(payload) settles: a rejection is not caught.
DeliverResolved(r, ok) ==
  /\ call.pc = "awaitDeliver"
  /\ r \in InFlight(net)
  /\ r.kind = "deliver"
  /\ net' = Settle(net, r)
  /\ call' = [call EXCEPT !.pc = "idle", !.payload = NoPayload,
                          !.res = Append(@, IF ok THEN "ok" ELSE "fail"),
                          !.result = IF ok THEN "returned" ELSE "rejected"]
  /\ ev' = Event("deliverResolved", <<>>, "none")
  /\ UNCHANGED <<tracker, timers, hist>>

\* The id the transport gives the next message: one that nothing refers to.
\* (The transport never hands out an id twice; the tracker only compares ids,
\* so an id that is referred to nowhere any more may stand for a new one.)
FreshMessageId ==
  LET used == {activeMessageId, hist.sentId} \cup hist.created
                \cup {x.msg : x \in InFlight(net)}
  IN CHOOSE n \in 1..(Cardinality(used) + 1) : n \notin used

\* handleToolUpdate storing whatever the send returned.
storesMessageIdAlways(outcome) == outcome # "throw"

\* if (messageId != null): whether handleToolUpdate stores the send's result.
storesMessageId(outcome) == outcome = "id"

\* await sendTelegramText(...) settles: with a message id, with no id, or
\* with a rejection, which is not caught.
SendResolved(r, outcome) ==
  /\ call.pc = "awaitSend"
  /\ r \in InFlight(net)
  /\ r.kind = "send"
  /\ net' = Settle(net, r)
  /\ IF storesMessageId(outcome)
       THEN /\ activeMessageId' = FreshMessageId
            /\ lastSentText' = TextOrEmpty(call.payload.text)
            /\ hist' = [hist EXCEPT !.sentId = FreshMessageId,
                                  !.shown = r.body.text,
                                  !.created = @ \cup {FreshMessageId}]
       ELSE /\ hist' = [hist EXCEPT !.noId = TRUE]
            /\ UNCHANGED <<activeMessageId, lastSentText>>
  /\ call' = [call EXCEPT !.pc = "idle", !.payload = NoPayload,
                          !.res = Append(@, IF outcome = "throw" THEN "fail" ELSE "ok"),
                          !.result = IF outcome = "throw" THEN "rejected" ELSE "returned"]
  /\ ev' = Event("sendResolved", <<>>, outcome)
  /\ UNCHANGED <<pendingText, debounceTimer, stopped, timers>>

\* ---------------------------------------------------------- editMessageText
\* An edit that names no message.
editMessageTextOfNoMessage(messageId, text, by) ==
  Remote("edit", 0,
         markdownToTelegramHtml(truncateText(text, TELEGRAM_TEXT_LIMIT)), NoPayload, by)

\* bot.api.editMessageText(chatId, activeMessageId, html, ...) with html the
\* text truncated and rendered, as flushEdit and cleanup call it.
editMessageText(messageId, text, by) ==
  Remote("edit", messageId,
         markdownToTelegramHtml(truncateText(text, TELEGRAM_TEXT_LIMIT)), NoPayload, by)

\* --------------------------------------------------------------- flushEdit
\* The branch flushEdit takes once it has cleared the timer handle.
\* flushEdit that returns at once whatever is pending.
flushEditPathNeverFlushes(isStopped, active, pending, last) == "skip"

\* flushEdit without the comparison with lastSentText.
flushEditPathNoDup(isStopped, active, pending, last) ==
  IF isStopped \/ active = 0 \/ pending = Null THEN "skip" ELSE "edit"

flushEditPath(isStopped, active, pending, last) ==
  IF isStopped \/ active = 0 \/ pending = Null THEN "skip"
  ELSE IF pending = last THEN "duplicate"
  ELSE "edit"

\* The debounce timer t fires: its callback runs flushEdit up to the await.
FlushEdit(t) ==
  /\ t \in timers
  /\ t.remaining = 0
  /\ timers' = timers \ {t}
  /\ debounceTimer' = 0
  /\ LET path == flushEditPath(stopped, activeMessageId, pendingText, lastSentText)
         text == pendingText
         r == editMessageText(activeMessageId, text, "flushEdit")
         h1 == [hist EXCEPT !.fired = Min(@ + 1, 2), !.overlap = FALSE]
     IN
     CASE path = "skip" ->
            /\ ev' = Event("flushEdit", <<>>, "none")
            /\ hist' = h1
            /\ UNCHANGED <<pendingText, lastSentText, net>>
       [] path = "duplicate" ->
            /\ pendingText' = Null
            /\ ev' = Event("flushEdit", <<>>, "none")
            /\ hist' = h1
            /\ UNCHANGED <<lastSentText, net>>
       [] path = "edit" ->
            /\ pendingText' = Null
            /\ lastSentText' = text
            /\ net' = Issue(net, r)
            /\ ev' = Event("flushEdit", <<r>>, "none")
            /\ hist' = [h1 EXCEPT !.edits = Min(@ + 1, 2), !.body = r.body]
  /\ UNCHANGED <<activeMessageId, stopped, call>>

\* The edit flushEdit awaits settles; a rejection is caught and dropped.
FlushEditResolved(r, ok) ==
  /\ r \in InFlight(net)
  /\ r.kind = "edit"
  /\ r.by = "flushEdit"
  /\ net' = Settle(net, r)
  /\ ev' = Event(IF ok THEN "flushEditOk" ELSE "flushEditFailed", <<>>, "none")
  /\ hist' = IF ok /\ r.msg = activeMessageId
               THEN [hist EXCEPT !.shown = r.body.text] ELSE hist
  /\ UNCHANGED <<tracker, timers, call>>

\* ----------------------------------------------------------------- cleanup
\* What cleanup does about the pending text before it deletes.
\* cleanup that drops the pending text of a stopped tracker without an edit.
cleanupFlushNotWhenStopped(pending, active, last) ==
  IF pending = Null \/ active = 0 THEN "none"
  ELSE IF pending = last \/ stopped THEN "duplicate"
  ELSE "edit"

\* cleanup that flushes without looking whether anything is pending.
cleanupFlushNoNullCheck(pending, active, last) ==
  IF active = 0 THEN "none"
  ELSE IF pending = last THEN "duplicate"
  ELSE "edit"

cleanupFlush(pending, active, last) ==
  IF pending = Null \/ active = 0 THEN "none"
  ELSE IF pending = last THEN "duplicate"
  ELSE "edit"

\* cleanup that deletes without looking whether a message is tracked.
cleanupDeletesAlways(active) == TRUE

\* Whether cleanup deletes the status message.
cleanupDeletes(active) == active # 0

\* cleanup whose failed edit ends the flush-and-delete sequence.
afterForcedEditStopsOnFailure(ok) == IF ok THEN "delete" ELSE "finish"

\* What cleanup does once its forced edit has settled.
afterForcedEdit(ok) == "delete"

\* cleanup that leaves the stopped flag as it is.
cleanupResetKeepsStopped ==
  [lastSentText |-> EmptyText, pendingText |-> Null, stopped |-> stopped]

\* The values cleanup leaves in the fields it resets last.
cleanupReset == [lastSentText |-> EmptyText, pendingText |-> Null, stopped |-> FALSE]

\* cleanup's last statements, with c its call record, n the calls in flight
\* and op the name of the step.
CleanupFinish(c, n, op) ==
  /\ lastSentText' = cleanupReset.lastSentText
  /\ pendingText' = cleanupReset.pendingText
  /\ stopped' = cleanupReset.stopped
  /\ net' = n
  /\ call' = [c EXCEPT !.pc = "idle", !.result = "returned"]
  /\ ev' = Event(op, <<>>, "none")

\* cleanup from "Delete the tool status message" on; pend: pendingText now.
CleanupDelete(c, n, pend, op) ==
  IF cleanupDeletes(activeMessageId)
    THEN LET r == Remote("delete", activeMessageId, NoBody, NoPayload, "cleanup") IN
         /\ net' = Issue(n, r)
         /\ call' = [c EXCEPT !.pc = "awaitDelete", !.log = Append(@, r)]
         /\ ev' = Event(op, <<r>>, "none")
         /\ pendingText' = pend
         /\ UNCHANGED <<activeMessageId, lastSentText, stopped>>
    ELSE /\ CleanupFinish(c, n, op)
         /\ UNCHANGED activeMessageId

Cleanup ==
  /\ call.pc = "idle"
  /\ timers' = IF debounceTimer # 0 THEN clearTimeout(timers, debounceTimer) ELSE timers
  /\ debounceTimer' = 0
  /\ hist' = NoHist
  /\ LET fl == cleanupFlush(pendingText, activeMessageId, lastSentText)
         pre == [active |-> activeMessageId, pending |-> pendingText,
                 last |-> lastSentText, stopped |-> stopped,
                 received |-> hist.received, sentId |-> hist.sentId,
                 created |-> hist.created]
         me == Started("cleanup", NoPayload, pre)
         r == editMessageText(activeMessageId, pendingText, "cleanup")
     IN
     IF fl = "edit"
       THEN /\ pendingText' = Null
            /\ net' = Issue(net, r)
            /\ call' = [me EXCEPT !.pc = "awaitEdit", !.log = <<r>>]
            /\ ev' = Event("cleanup", <<r>>, "none")
            /\ UNCHANGED <<activeMessageId, lastSentText, stopped>>
       ELSE CleanupDelete(me, net, IF fl = "none" THEN pendingText ELSE Null, "cleanup")

\* cleanup's forced edit settles (a rejection is caught); cleanup goes on.
CleanupEditResolved(r, ok) ==
  /\ call.pc = "awaitEdit"
  /\ r \in InFlight(net)
  /\ r.kind = "edit"
  /\ r.by = "cleanup"
  /\ LET c == [call EXCEPT !.res = Append(@, IF ok THEN "ok" ELSE "fail")]
         n == Settle(net, r)
     IN IF afterForcedEdit(ok) = "delete"
          THEN CleanupDelete(c, n, pendingText, "cleanupEditResolved")
          ELSE /\ CleanupFinish(c, n, "cleanupEditResolved")
               /\ UNCHANGED activeMessageId
  /\ UNCHANGED <<debounceTimer, timers, hist>>

\* cleanup's delete settles (a rejection is caught); cleanup resets and returns.
CleanupDeleteResolved(r, ok) ==
  /\ call.pc = "awaitDelete"
  /\ r \in InFlight(net)
  /\ r.kind = "delete"
  /\ activeMessageId' = 0
  /\ CleanupFinish([call EXCEPT !.res = Append(@, IF ok THEN "ok" ELSE "fail")],
                   Settle(net, r), "cleanupDeleteResolved")
  /\ UNCHANGED <<debounceTimer, timers, hist>>

\* -------------------------------------------------------------------- stop
\* stop() acting only when the tracker is stopped already.
stopInverted(ts, handle) ==
  IF stopped
    THEN [stopped |-> TRUE,
          timers |-> IF handle # 0 THEN clearTimeout(ts, handle) ELSE ts,
          debounceTimer |-> 0]
    ELSE [stopped |-> stopped, timers |-> ts, debounceTimer |-> handle]

\* The fields stop() writes.
stop(ts, handle) ==
  [stopped |-> TRUE,
   timers |-> IF handle # 0 THEN clearTimeout(ts, handle) ELSE ts,
   debounceTimer |-> 0]

Stop ==
  /\ call.pc = "idle"
  /\ LET s == stop(timers, debounceTimer) IN
     /\ stopped' = s.stopped
     /\ timers' = s.timers
     /\ debounceTimer' = s.debounceTimer
  /\ call' = [Started("stop", NoPayload, NoPre) EXCEPT !.result = "returned"]
  /\ ev' = Event("stop", <<>>, "none")
  /\ hist' = [hist EXCEPT !.stopCalled = TRUE, !.n = 0, !.last = Null,
                          !.base = EmptyText, !.edits = 0, !.body = NoBody,
                          !.fired = 0, !.since = 0]
  /\ UNCHANGED <<activeMessageId, pendingText, lastSentText, net>>

\* -------------------------------------------------------------------- time
\* TickMs pass.  A timer that is due fires before more time passes.  Time is
\* followed while a timer is scheduled and, after stop(), for one more window:
\* otherwise its passing changes nothing.
Tick ==
  /\ timers # {} \/ (hist.stopCalled /\ hist.since < DEBOUNCE_MS)
  /\ \A t \in timers : t.remaining >= TickMs
  /\ timers' = {[t EXCEPT !.remaining = @ - TickMs] : t \in timers}
  /\ hist' = [hist EXCEPT !.since = Min(@ + TickMs, DEBOUNCE_MS)]
  /\ ev' = Event("tick", <<>>, "none")
  /\ UNCHANGED <<tracker, net, call>>

\* ----------------------------------------------------------- specification
Next ==
  \/ /\ \E payload \in Payloads : HandleToolUpdate(payload)
     /\ UNCHANGED <<overlapping, proofreading>>
  \/ /\ \E r \in InFlight(net), ok \in BOOLEAN : DeliverResolved(r, ok)
     /\ UNCHANGED <<overlapping, proofreading>>
  \/ /\ \E r \in InFlight(net), outcome \in {"id", "null", "throw"} : SendResolved(r, outcome)
     /\ UNCHANGED <<overlapping, proofreading>>
  \/ /\ \E t \in timers : FlushEdit(t)
     /\ UNCHANGED <<overlapping, proofreading>>
  \/ /\ \E r \in InFlight(net), ok \in BOOLEAN : FlushEditResolved(r, ok)
     /\ UNCHANGED <<overlapping, proofreading>>
  \/ /\ Cleanup
     /\ UNCHANGED <<overlapping, proofreading>>
  \/ /\ \E r \in InFlight(net), ok \in BOOLEAN : CleanupEditResolved(r, ok)
     /\ UNCHANGED <<overlapping, proofreading>>
  \/ /\ \E r \in InFlight(net), ok \in BOOLEAN : CleanupDeleteResolved(r, ok)
     /\ UNCHANGED <<overlapping, proofreading>>
  \/ /\ Stop
     /\ UNCHANGED <<overlapping, proofreading>>
  \/ /\ Tick
     /\ UNCHANGED <<overlapping, proofreading>>

Spec == Init /\ [][Next]_vars

\* The event loop lets time pass and runs the callback of a timer that is due.
TimePasses == Tick /\ UNCHANGED <<overlapping, proofreading>>

TimerFires == (\E t \in timers : FlushEdit(t)) /\ UNCHANGED <<overlapping, proofreading>>

SpecFair == Spec /\ WF_vars(TimePasses) /\ WF_vars(TimerFires)

\* ---------------------------------------------------------- overlapping calls
\* handleToolUpdate is called again while the caller's call is awaiting its
\* send: the same function runs on the same fields of the tracker.
HandleToolUpdateOverlapping(payload) ==
  /\ call.op = "handleToolUpdate"
  /\ call.pc = "awaitSend"
  /\ overlapping.pc = "idle"
  /\ BagCardinality(net) <= MaxInflight
  /\ LET path == handleToolUpdatePath(stopped, payload, activeMessageId)
         text == TextOrEmpty(payload.text)
         me == Started("handleToolUpdate", payload, NoPre)
         h1 == [hist EXCEPT !.received = Min(@ + 1, 2)]
         kind == PayloadKind(payload)
         continues == hist.last # Null /\ hist.since < DEBOUNCE_MS
     IN
     CASE path \in {"ignore", "empty"} ->
            /\ overlapping' = [me EXCEPT !.result = "returned", !.payload = NoPayload]
            /\ ev' = Event("handleToolUpdateOverlapping", <<>>, kind)
            /\ hist' = h1
            /\ UNCHANGED <<tracker, timers, net>>
       [] path = "deliver" ->
            LET r == Remote("deliver", 0, NoBody, payload, "overlapping") IN
            /\ net' = Issue(net, r)
            /\ overlapping' = [me EXCEPT !.pc = "awaitDeliver", !.log = <<r>>]
            /\ ev' = Event("handleToolUpdateOverlapping", <<r>>, kind)
            /\ hist' = h1
            /\ UNCHANGED <<tracker, timers>>
       [] path = "send" ->
            LET r == Remote("send", 0, PlainBody(truncateText(text, textLimit)),
                            NoPayload, "overlapping") IN
            /\ net' = Issue(net, r)
            /\ overlapping' = [me EXCEPT !.pc = "awaitSend", !.log = <<r>>]
            /\ ev' = Event("handleToolUpdateOverlapping", <<r>>, kind)
            /\ hist' = [h1 EXCEPT !.sends = Min(@ + 1, 2), !.latest = text]
            /\ UNCHANGED <<tracker, timers>>
       [] path = "buffer" ->
            LET d == resetDebounce(timers, debounceTimer) IN
            /\ pendingText' = text
            /\ timers' = d.timers
            /\ debounceTimer' = d.handle
            /\ overlapping' = [me EXCEPT !.result = "returned", !.payload = NoPayload]
            /\ ev' = Event("handleToolUpdateOverlapping", <<>>, kind)
            /\ hist' = [h1 EXCEPT !.n = IF continues THEN Min(@ + 1, 2) ELSE 1,
                                  !.last = text, !.base = lastSentText,
                                  !.edits = IF continues THEN @ ELSE 0,
                                  !.body = IF continues THEN @ ELSE NoBody,
                                  !.fired = IF continues THEN @ ELSE 0,
                                  !.since = 0,
                                  !.latest = text,
                                  !.overlap = \E e \in InFlight(net) : e.kind = "edit"]
            /\ UNCHANGED <<activeMessageId, lastSentText, stopped, net>>
  /\ UNCHANGED call

\* The overlapping call's forward settles.
DeliverResolvedOverlapping(r, ok) ==
  /\ overlapping.pc = "awaitDeliver"
  /\ r \in InFlight(net)
  /\ r.kind = "deliver"
  /\ r.by = "overlapping"
  /\ net' = Settle(net, r)
  /\ overlapping' = [overlapping EXCEPT
                       !.pc = "idle", !.payload = NoPayload,
                       !.res = Append(@, IF ok THEN "ok" ELSE "fail"),
                       !.result = IF ok THEN "returned" ELSE "rejected"]
  /\ ev' = Event("deliverResolvedOverlapping", <<>>, "none")
  /\ UNCHANGED <<tracker, timers, hist, call>>

\* The overlapping call's send settles.
SendResolvedOverlapping(r, outcome) ==
  /\ overlapping.pc = "awaitSend"
  /\ r \in InFlight(net)
  /\ r.kind = "send"
  /\ r.by = "overlapping"
  /\ net' = Settle(net, r)
  /\ IF storesMessageId(outcome)
       THEN /\ activeMessageId' = FreshMessageId
            /\ lastSentText' = TextOrEmpty(overlapping.payload.text)
            /\ hist' = [hist EXCEPT !.sentId = FreshMessageId,
                                  !.shown = r.body.text,
                                  !.created = @ \cup {FreshMessageId}]
       ELSE /\ hist' = [hist EXCEPT !.noId = TRUE]
            /\ UNCHANGED <<activeMessageId, lastSentText>>
  /\ overlapping' = [overlapping EXCEPT
                       !.pc = "idle", !.payload = NoPayload,
                       !.res = Append(@, IF outcome = "throw" THEN "fail" ELSE "ok"),
                       !.result = IF outcome = "throw" THEN "rejected" ELSE "returned"]
  /\ ev' = Event("sendResolvedOverlapping", <<>>, outcome)
  /\ UNCHANGED <<pendingText, debounceTimer, stopped, timers, call>>

\* The payloads the two callers pass: two texts, no text, a photo.
OverlapPayloads ==
  {Payload(TextA, "", <<>>), Payload(TextL, "", <<>>), Payload(Null, "", <<>>),
   Payload(TextA, PhotoUrl, <<>>)}

\* The tracker with a second caller that does not wait for the first one's
\* send; cleanup() is called when both have returned.
OverlapNext ==
  \/ /\ \E payload \in OverlapPayloads : HandleToolUpdate(payload)
     /\ UNCHANGED <<overlapping, proofreading>>
  \/ /\ \E r \in InFlight(net), ok \in BOOLEAN :
          r.by = "handleToolUpdate" /\ DeliverResolved(r, ok)
     /\ UNCHANGED <<overlapping, proofreading>>
  \/ /\ \E r \in InFlight(net), outcome \in {"id", "null", "throw"} :
          r.by = "handleToolUpdate" /\ SendResolved(r, outcome)
     /\ UNCHANGED <<overlapping, proofreading>>
  \/ /\ \E payload \in OverlapPayloads : HandleToolUpdateOverlapping(payload)
     /\ UNCHANGED proofreading
  \/ /\ \E r \in InFlight(net), ok \in BOOLEAN : DeliverResolvedOverlapping(r, ok)
     /\ UNCHANGED proofreading
  \/ /\ \E r \in InFlight(net), outcome \in {"id", "null", "throw"} :
          SendResolvedOverlapping(r, outcome)
     /\ UNCHANGED proofreading
  \/ /\ \E t \in timers : FlushEdit(t)
     /\ UNCHANGED <<overlapping, proofreading>>
  \/ /\ \E r \in InFlight(net), ok \in BOOLEAN : FlushEditResolved(r, ok)
     /\ UNCHANGED <<overlapping, proofreading>>
  \/ /\ overlapping.pc = "idle"
     /\ Cleanup
     /\ UNCHANGED <<overlapping, proofreading>>
  \/ /\ \E r \in InFlight(net), ok \in BOOLEAN : CleanupEditResolved(r, ok)
     /\ UNCHANGED <<overlapping, proofreading>>
  \/ /\ \E r \in InFlight(net), ok \in BOOLEAN : CleanupDeleteResolved(r, ok)
     /\ UNCHANGED <<overlapping, proofreading>>
  \/ /\ Tick
     /\ UNCHANGED <<overlapping, proofreading>>

SpecOverlap == Init /\ [][OverlapNext]_vars

\* ------------------------------------------------- the parser, step by step
\* parseProofreadResponse is called with a reply and the text it was asked
\* to proofread.
ParseInit ==
  /\ TrackerIdle
  /\ AttemptsIdle
  /\ dc = DcIdle
  /\ fn = FnIdle
  /\ \E raw \in Replies, original \in Originals :
       pr = [PrIdle EXCEPT !.pc = "start", !.raw = raw,
                           !.originalText = original.text]

\* The fences are stripped and the outermost braces taken.
ParseStrip ==
  /\ pr.pc = "start"
  /\ pr' = [pr EXCEPT !.pc = "candidates",
                      !.stripped = stripCodeFences(pr.raw),
                      !.jsonStr = extractJson(stripCodeFences(pr.raw))]
  /\ UNCHANGED <<trackerVars, attemptVars, codecVars>>

\* The next candidate is given to JSON.parse; the first success ends the loop.
ParseTry ==
  /\ pr.pc = "candidates"
  /\ LET cands == candidates(pr.jsonStr)
         r == JSONparse(cands[pr.tried + 1])
     IN pr' = [pr EXCEPT !.tried = @ + 1,
                         !.parsed = r.v,
                         !.pc = IF r.ok \/ pr.tried + 1 = Len(cands)
                                  THEN "parsed" ELSE "candidates"]
  /\ UNCHANGED <<trackerVars, attemptVars, codecVars>>

\* The result is built and returned.
ParseReturn ==
  /\ pr.pc = "parsed"
  /\ pr' = [pr EXCEPT !.pc = "done",
                      !.result = IF Truthy(pr.parsed)
                                   THEN parsedResult(pr.parsed, pr.originalText)
                                   ELSE failureResult(pr.raw, pr.stripped, pr.originalText)]
  /\ UNCHANGED <<trackerVars, attemptVars, codecVars>>

ParseNext ==
  \/ ParseStrip
  \/ ParseTry
  \/ ParseReturn

SpecParse == ParseInit /\ [][ParseNext]_vars

\* ------------------------------------------- maybeProofreadPayload, by steps
\* The texts of payloads, each with its trimmed form.
ProofTexts ==
  {[text |-> "", trimmed |-> ""],
   [text |-> "Short", trimmed |-> "Short"],
   [text |-> "       too short       ", trimmed |-> "too short"],
   [text |-> "nineteen characters", trimmed |-> "nineteen characters"],
   [text |-> "exactly twenty chars", trimmed |-> "exactly twenty chars"],
   [text |-> "  Some text that is long enough to proofread\n",
    trimmed |-> "Some text that is long enough to proofread"]}

MediaUrl == "/tmp/audio.mp3"

ProofPayloads ==
  {ReplyPayload(t, m, ms) :
     t \in {None} \cup {Some(x.text) : x \in ProofTexts},
     m \in {None, Some(MediaUrl)},
     ms \in {None, Some(<<MediaUrl>>)}}

ProofConfigs == {NoProofreadConfig, ProofreadConfig(FALSE), ProofreadConfig(TRUE)}

AgentDir == "/tmp/agent"

\* The second call is one that passes the guard, for either session.
OverlapParams ==
  {Params(ReplyPayload(Some("[soft] Another text of the same turn."), None, None),
          ProofreadConfig(TRUE), Some(AgentDir), Some(k)) : k \in SessionKeys}

ProofParams(c) ==
  IF c = "c1"
    THEN {Params(p, cfg, dir, key) :
            p \in ProofPayloads, cfg \in ProofConfigs,
            dir \in {None, Some(AgentDir)}, key \in {None, Some("s1")}}
    ELSE OverlapParams

\* What complete() resolves with.
CorrectedReply ==
  "{\"corrected_text\":\"Line one.\",\"corrected_voice\":\"[soft] Line one.\",\"changes\":[\"fix\"],\"unchanged\":false}"

UnchangedReply ==
  "{\"corrected_text\":\"ok\",\"corrected_voice\":\"ok\",\"changes\":[],\"unchanged\":true}"

Messages ==
  {Message("error", Some("429 Too Many Requests"), <<>>),
   Message("error", Some("500 Internal Server Error"), <<>>),
   Message("error", None, <<TextPart(CorrectedReply)>>),
   Message("error", Some(""), <<>>),
   Message("stop", None, <<>>),
   Message("stop", None, <<ThinkingPart("hm"), TextPart("  \n")>>),
   Message("stop", None, <<ThinkingPart(UnchangedReply), TextPart(CorrectedReply)>>),
   Message("stop", Some("429"), <<TextPart("\n" \o UnchangedReply)>>),
   Message("stop", None, <<TextPart("not json"), TextPart(" at all")>>),
   Message("stop", None, <<TextPart("{}")>>)}

\* The texts that reach proofreadText.
AttemptTexts ==
  {trimmedText(ps.payload)[1] :
     ps \in {q \in ProofParams("c1") \cup ProofParams("c2") : guard(q) = "proofread"}}

\* completionResult for every message and text, computed once.
completionResults ==
  [message \in Messages |-> [text \in AttemptTexts |-> completionResult(message, text)]]

\* How proofreadText ends once it has the message it accepts.
completionWhy(message) ==
  IF message.stopReason = "error" THEN "completionError"
  ELSE IF trim(textOfFrom(message.content, 1)) = "" THEN "emptyResponse"
  ELSE "parsed"

\* The attempt a of call c ends with a result of proofreadText: lines 799-820.
AttemptReturned(c, a, result, why) ==
  LET key == a.params.sessionKey
      outcome == attemptOutcome(result)
      outText == IF result.unchanged THEN a.text ELSE result.corrected_text
  IN /\ recentOutbound' =
          IF outcome # "error" /\ key # None
            THEN pushOutboundText(recentOutbound, key[1], outText)
            ELSE recentOutbound
     /\ pushed' =
          IF outcome # "error" /\ key # None
            THEN [pushed EXCEPT ![key[1]] = Append(@, outText)]
            ELSE pushed
     /\ attempt' = [attempt EXCEPT ![c] =
          [a EXCEPT !.pc = "returned", !.result = Some(result), !.why = why,
                    !.settled =
                      Some(IF outcome = "corrected"
                             THEN NewPayload([a.params.payload EXCEPT
                                                !.text = Some(combined(result))])
                             ELSE SamePayload(a.params.payload))]]

\* Something called by the attempt of call c throws: the catch of line 821.
AttemptThrew(c) ==
  /\ attempt' = [attempt EXCEPT ![c] =
       [attempt[c] EXCEPT !.pc = "returned", !.why = "threw",
                          !.settled = Some(caught(attempt[c].params.payload))]]
  /\ UNCHANGED ringVars

\* maybeProofreadPayload(params) is called: the guard, the read of the ring,
\* and proofreadText up to its first await.
MaybeProofreadPayload(c, params) ==
  /\ attempt[c].pc = "idle"
  /\ IF guard(params) # "proofread"
       THEN attempt' = [attempt EXCEPT ![c] =
              [attempt[c] EXCEPT !.pc = "returned", !.params = params, !.why = guard(params),
                        !.settled = Some(SamePayload(params.payload))]]
       ELSE attempt' = [attempt EXCEPT ![c] =
              [attempt[c] EXCEPT !.pc = "ensure", !.params = params,
                        !.text = trimmedText(params.payload)[1],
                        !.context =
                          IF params.sessionKey = None THEN None
                          ELSE getRecentOutboundContext(recentOutbound, params.sessionKey[1])]]
  /\ UNCHANGED <<ringVars, trackerVars, parserVars, codecVars>>

\* await ensureOpenClawModelsJson(...) settles and the model is looked up:
\* something throws, the registry has no such model, or it has.
ModelResolved(c, outcome) ==
  /\ attempt[c].pc = "ensure"
  /\ CASE outcome = "throws" -> AttemptThrew(c)
       [] outcome = "notFound" ->
            AttemptReturned(c, attempt[c],
                            errorResult(attempt[c].text, "Proofread model not found"),
                            "modelNotFound")
       [] outcome = "found" ->
            /\ attempt' = [attempt EXCEPT ![c].pc = "apiKey"]
            /\ UNCHANGED ringVars
  /\ UNCHANGED <<trackerVars, parserVars, codecVars>>

\* await getApiKeyForModel(...) settles; with a key the first completion
\* call is made.
ApiKeyResolved(c, ok) ==
  /\ attempt[c].pc = "apiKey"
  /\ IF ok
       THEN /\ attempt' = [attempt EXCEPT ![c].pc = "complete", ![c].completes = 1]
            /\ UNCHANGED ringVars
       ELSE AttemptThrew(c)
  /\ UNCHANGED <<trackerVars, parserVars, codecVars>>

\* await complete(...) settles with a message: the first completion call.
CompleteResolved(c, message) ==
  /\ attempt[c].pc = "complete"
  /\ LET a == [attempt[c] EXCEPT !.first = Some(message)] IN
     IF afterComplete(message) = "retry"
       THEN /\ attempt' = [attempt EXCEPT ![c] =
                 [a EXCEPT !.pc = "backoff", !.wait = RetryDelayMs, !.waited = 0]]
            /\ UNCHANGED ringVars
       ELSE AttemptReturned(c, a, completionResults[message][a.text],
                            completionWhy(message))
  /\ UNCHANGED <<trackerVars, parserVars, codecVars>>

\* RetryTickMs pass for the calls that wait before their retry; a back-off
\* that is over ends before more time passes.
BackoffTick ==
  /\ \E c \in ProofCalls : attempt[c].pc = "backoff"
  /\ \A c \in ProofCalls : attempt[c].pc = "backoff" => attempt[c].wait >= RetryTickMs
  /\ attempt' = [c \in ProofCalls |->
       IF attempt[c].pc = "backoff"
         THEN [attempt[c] EXCEPT !.wait = @ - RetryTickMs, !.waited = @ + RetryTickMs]
         ELSE attempt[c]]
  /\ UNCHANGED <<ringVars, trackerVars, parserVars, codecVars>>

\* The back-off of call c is over: the completion call is made again.
BackoffElapsed(c) ==
  /\ attempt[c].pc = "backoff"
  /\ attempt[c].wait = 0
  /\ attempt' = [attempt EXCEPT ![c].pc = "retry",
                                ![c].completes = Min(@ + 1, MaxCompletes)]
  /\ UNCHANGED <<ringVars, trackerVars, parserVars, codecVars>>

\* await complete(...) settles with a message: the retry.
RetryResolved(c, message) ==
  /\ attempt[c].pc = "retry"
  /\ IF afterRetry(message) = "retry"
       THEN /\ attempt' = [attempt EXCEPT ![c].pc = "backoff",
                                          ![c].wait = RetryDelayMs, ![c].waited = 0]
            /\ UNCHANGED ringVars
       ELSE AttemptReturned(c, [attempt[c] EXCEPT !.second = Some(message)],
                            completionResults[message][attempt[c].text],
                            completionWhy(message))
  /\ UNCHANGED <<trackerVars, parserVars, codecVars>>

\* complete(...) throws, at the first call or at the retry.
CompleteThrew(c) ==
  /\ attempt[c].pc \in {"complete", "retry"}
  /\ AttemptThrew(c)
  /\ UNCHANGED <<trackerVars, parserVars, codecVars>>

ProofreadInit ==
  /\ TrackerIdle
  /\ pr = PrIdle
  /\ AttemptsIdle
  /\ dc = DcIdle
  /\ fn = FnIdle

ProofreadNext ==
  \/ \E c \in ProofCalls : \E params \in ProofParams(c) : MaybeProofreadPayload(c, params)
  \/ \E c \in ProofCalls, outcome \in {"throws", "notFound", "found"} : ModelResolved(c, outcome)
  \/ \E c \in ProofCalls, ok \in BOOLEAN : ApiKeyResolved(c, ok)
  \/ \E c \in ProofCalls, message \in Messages : CompleteResolved(c, message)
  \/ BackoffTick
  \/ \E c \in ProofCalls : BackoffElapsed(c)
  \/ \E c \in ProofCalls, message \in Messages : RetryResolved(c, message)
  \/ \E c \in ProofCalls : CompleteThrew(c)

SpecProofread == ProofreadInit /\ [][ProofreadNext]_vars

RECURSIVE SumLen(_, _)
SumLen(f, keys) ==
  IF keys = {} THEN 0
  ELSE LET k == CHOOSE x \in keys : TRUE IN Len(f[k]) + SumLen(f, keys \ {k})

\* ------------------------------------- maybeProofreadPayload, call after call
\* Calls are made again until this many texts were pushed.
MaxRepeatPushes == 5

\* Two callers proofread texts of one session.
ContextParams(c) == {ps \in OverlapParams : ps.sessionKey = Some("s1")}

\* What complete() resolves with: a rate limit, an error without a message,
\* a correction, no change.
ContextMessages ==
  {Message("error", Some("429 Too Many Requests"), <<>>),
   Message("error", Some(""), <<>>),
   Message("stop", None, <<ThinkingPart(UnchangedReply), TextPart(CorrectedReply)>>),
   Message("stop", Some("429"), <<TextPart("\n" \o UnchangedReply)>>)}

\* The call c has returned and its caller is about to call again.
CallAgain(c) ==
  /\ attempt[c].pc = "returned"
  /\ SumLen(pushed, SessionKeys) < MaxRepeatPushes
  /\ attempt' = [attempt EXCEPT ![c] = IdleAttempt]
  /\ UNCHANGED <<ringVars, trackerVars, parserVars, codecVars>>

ContextNext ==
  \/ \E c \in ProofCalls : \E params \in ContextParams(c) : MaybeProofreadPayload(c, params)
  \/ \E c \in ProofCalls, outcome \in {"throws", "notFound", "found"} : ModelResolved(c, outcome)
  \/ \E c \in ProofCalls, ok \in BOOLEAN : ApiKeyResolved(c, ok)
  \/ \E c \in ProofCalls, message \in ContextMessages : CompleteResolved(c, message)
  \/ BackoffTick
  \/ \E c \in ProofCalls : BackoffElapsed(c)
  \/ \E c \in ProofCalls, message \in ContextMessages : RetryResolved(c, message)
  \/ \E c \in ProofCalls : CompleteThrew(c)
  \/ \E c \in ProofCalls : CallAgain(c)

SpecContext == ProofreadInit /\ [][ContextNext]_vars

\* ------------------------------------------------- the ring, push by push
\* The texts attempts end with.
RingTexts == {"Line one.", "Some text that is long enough to proofread"}

\* The pushes that are followed.
MaxPushes == 5

\* An attempt for sessionKey ends without error: outText is pushed
\* (lines 805-808).
PushOutboundText(sessionKey, outText) ==
  /\ SumLen(pushed, SessionKeys) < MaxPushes
  /\ recentOutbound' = pushOutboundText(recentOutbound, sessionKey, outText)
  /\ pushed' = [pushed EXCEPT ![sessionKey] = Append(@, outText)]
  /\ UNCHANGED <<attempt, trackerVars, parserVars, codecVars>>

RingInit ==
  /\ TrackerIdle
  /\ pr = PrIdle
  /\ AttemptsIdle
  /\ dc = DcIdle
  /\ fn = FnIdle

RingNext ==
  \E sessionKey \in SessionKeys, outText \in RingTexts :
    PushOutboundText(sessionKey, outText)

SpecRing == RingInit /\ [][RingNext]_vars

\* ------------------------------------------------- the decoders, call by call
\* Display and voice texts that are encoded.
DisplayTexts == {"Fixed text", "Corrected text", "a [b] c", "", " padded "}

VoiceTexts ==
  {"[whispers] Fixed text", "[whispers] Corrected voice", "v", "", "ends with [",
   "a[/tts:text]]b", " padded\n"}

\* The closing token, and the one with a bracket more that a model writes.
CloseToken == "[[/tts:text]]"
CloseTokenExtraBracket == "[[[/tts:text]]"
ClosingTokens == {CloseToken, CloseTokenExtraBracket}

\* display + "\n" + OPEN + voice + CLOSE: as maybeProofreadPayload writes it,
\* or with the closing token a model wrote.
Encode(display, voice, closing) ==
  IF closing = CloseToken
    THEN combined([corrected_text |-> display, corrected_voice |-> voice])
    ELSE display \o "\n" \o OpenToken \o voice \o closing

\* Texts with tokens as a model writes them: upper case, a closing token with
\* a bracket more or a bracket less, two spans, a span never closed.
WrittenTexts ==
  {"Just plain text",
   "[[tts:text]]only voice[[/tts:text]]",
   "  \n",
   "Hi\n[[tts:text]]voice[[[/tts:text]]",
   "Hi\n[[tts:text]]voice[/tts:text]]",
   "[[TTS:Text]]loud[[/TTS:TEXT]] tail",
   "a [[tts:text]]one[[/tts:text]] b [[tts:text]] two [/tts:text]] c",
   "x [[tts:text]] never closed",
   "[[tts:text]]  [[/tts:text]]"}

\* Every text of up to MaxPieces of these pieces.
MaxPieces == 3
Pieces == {"[[tts:text]]", "[[/tts:text]]", "[", "/tts:text]]", "a", " "}

RECURSIVE PieceTexts(_)
PieceTexts(n) ==
  IF n = 0 THEN {""}
  ELSE LET shorter == PieceTexts(n - 1) IN
       shorter \cup {s \o p : s \in shorter, p \in Pieces}

DecoderInputs ==
  {[DcIdle EXCEPT !.pc = "given",
                  !.payload = ReplyPayload(Some(Encode(d, v, c)), None, None),
                  !.display = Some(d), !.voice = Some(v), !.closing = Some(c)] :
     d \in DisplayTexts, v \in VoiceTexts, c \in ClosingTokens}
  \cup
  {[DcIdle EXCEPT !.pc = "given", !.payload = ReplyPayload(Some(t), None, None)] :
     t \in WrittenTexts \cup PieceTexts(MaxPieces)}
  \cup
  {[DcIdle EXCEPT !.pc = "given", !.payload = ReplyPayload(t, Some(MediaUrl), None)] :
     t \in {None, Some(""), Some("Corrected text\n[[tts:text]][whispers] Corrected voice[[/tts:text]]")}}

\* stripTtsDirectivesForDisplay(payload) is called.
StripTtsDirectivesForDisplay ==
  /\ dc.pc = "given"
  /\ dc.shown = None
  /\ dc' = [dc EXCEPT !.shown = Some(stripTtsDirectivesForDisplay(dc.payload))]
  /\ UNCHANGED <<trackerVars, parserVars, attemptVars, fn>>

\* proofreadText takes the voice hint from its text (lines 643-644).
ExtractVoiceHint ==
  /\ dc.pc = "given"
  /\ dc.payload.text # None
  /\ dc.hint = None
  /\ dc' = [dc EXCEPT !.hint = Some(voiceHint(dc.payload.text[1]))]
  /\ UNCHANGED <<trackerVars, parserVars, attemptVars, fn>>

\* buildUserMessage cleans the text to proofread (lines 585-587).
BuildUserMessage ==
  /\ dc.pc = "given"
  /\ dc.payload.text # None
  /\ dc.clean = None
  /\ dc' = [dc EXCEPT !.clean = Some(cleanText(dc.payload.text[1]))]
  /\ UNCHANGED <<trackerVars, parserVars, attemptVars, fn>>

DecodeInit ==
  /\ TrackerIdle
  /\ pr = PrIdle
  /\ AttemptsIdle
  /\ dc \in DecoderInputs
  /\ fn = FnIdle

DecodeNext ==
  \/ StripTtsDirectivesForDisplay
  \/ ExtractVoiceHint
  \/ BuildUserMessage

SpecDecode == DecodeInit /\ [][DecodeNext]_vars

\* ------------------------------------------- the text functions, call by call
\* Every text of up to MaxScanLen of the characters a scan tells apart: quote,
\* backslash, line feed, carriage return, a letter and a space.
MaxScanLen == 4

ScanAlphabet == CharsOf("\"\\\n\ra ")

RECURSIVE ScanStrings(_)
ScanStrings(n) ==
  IF n = 0 THEN {""}
  ELSE LET shorter == ScanStrings(n - 1) IN
       shorter \cup {s \o c : s \in shorter, c \in ScanAlphabet}

\* Replies with line breaks inside their string values and between their
\* members, and replies with none inside a string.
BrokenLineReplies ==
  {Reply(o, pretty, FALSE, keepLf) :
     o \in {x \in PlainObjects : x.corrected_text = "ok" /\ ~x.unchanged},
     pretty \in BOOLEAN, keepLf \in BOOLEAN}

RepairInputs == ScanStrings(MaxScanLen) \cup BrokenLineReplies

\* Every text of up to MaxFenceParts of the parts a fence is told by.
MaxFenceParts == 4

FenceParts == {Fence, "json", "\n", " ", "{}", "~"}

RECURSIVE FenceTexts(_)
FenceTexts(n) ==
  IF n = 0 THEN {""}
  ELSE LET shorter == FenceTexts(n - 1) IN
       shorter \cup {s \o p : s \in shorter, p \in FenceParts}

\* Replies as models wrap them, and texts with two blocks.
FencedReplies ==
  {Wrap("{\"a\":1}", how) : how \in Wrappings}
    \cup {"Here it is: ~~~JSON  \n\n {\"a\":1} \n~~~ and then\n~~~\n{\"b\":2}\n~~~ bye",
          "Here it is: ~~~{\"a\":1}~~~", "  {\"a\":1}  \n"}

FenceInputs == FenceTexts(MaxFenceParts) \cup FencedReplies

\* repairJsonNewlines(json) is called.
RepairJsonNewlines ==
  /\ fn.name = "repairJsonNewlines"
  /\ fn.out = None
  /\ fn' = [fn EXCEPT !.out = Some(repairJsonNewlines(fn.arg))]
  /\ UNCHANGED <<trackerVars, parserVars, attemptVars, dc>>

\* stripCodeFences(text) is called.
StripCodeFences ==
  /\ fn.name = "stripCodeFences"
  /\ fn.out = None
  /\ fn' = [fn EXCEPT !.out = Some(stripCodeFences(fn.arg))]
  /\ UNCHANGED <<trackerVars, parserVars, attemptVars, dc>>

TextInit ==
  /\ TrackerIdle
  /\ pr = PrIdle
  /\ AttemptsIdle
  /\ dc = DcIdle
  /\ \/ \E json \in RepairInputs :
          fn = [FnIdle EXCEPT !.name = "repairJsonNewlines", !.arg = json]
     \/ \E text \in FenceInputs :
          fn = [FnIdle EXCEPT !.name = "stripCodeFences", !.arg = text]

TextNext ==
  \/ RepairJsonNewlines
  \/ StripCodeFences

SpecText == TextInit /\ [][TextNext]_vars

\* ================================================================== claims
Rendered(text) == markdownToTelegramHtml(truncateText(text, TELEGRAM_TEXT_LIMIT))

Kinds(calls) == {calls[i].kind : i \in 1..Len(calls)}

\* The debounce of the current burst has fired.
Quiet == hist.last # Null /\ hist.since >= DEBOUNCE_MS /\ timers = {}

\* While the updates of a burst keep arriving the debounce issues no edit
\* and the window stays open.
NoEditWhileArriving ==
  (hist.last # Null /\ hist.since < DEBOUNCE_MS)
    => (hist.edits = 0 /\ debounceTimer # 0)

\* C1 as stated: once a message exists, a burst of text updates, each less
\* than 2000 ms after the one before, leads to no edit while they arrive and
\* to exactly one edit, of the last update's text truncated and rendered,
\* once 2000 ms have passed without an update.
C1_Original ==
  /\ NoEditWhileArriving
  /\ Quiet => (hist.edits = 1 /\ hist.body = Rendered(hist.last))

\* C1 amended: ... to exactly one edit, of the last update's text truncated
\* and rendered, once 2000 ms have passed without an update, unless that text
\* equals lastSentText: then the pending text is dropped and no edit is issued.
C1_DebouncedBurst ==
  /\ NoEditWhileArriving
  /\ Quiet =>
       IF hist.last = hist.base
         THEN hist.edits = 0
         ELSE hist.edits = 1 /\ hist.body = Rendered(hist.last)

\* A burst of two or more updates has been flushed as one edit of the last
\* one, a text over the limit, cut to the limit.
C1_Witness ==
  /\ Quiet
  /\ hist.n = 2
  /\ hist.last = TextL
  /\ hist.base = TextA
  /\ hist.edits = 1
  /\ hist.body.text.cut
  /\ hist.body.text.len = TELEGRAM_TEXT_LIMIT

\* C2: when the debounce fires, or cleanup() force-flushes, with a pending
\* text equal to lastSentText, the pending text is cleared and no edit is
\* issued.
C2_DuplicateSuppressed ==
  [][(/\ ev'.op \in {"flushEdit", "cleanup"}
      /\ activeMessageId # 0
      /\ pendingText # Null
      /\ pendingText = lastSentText)
       => (pendingText' = Null /\ "edit" \notin Kinds(ev'.calls))]_vars

\* The debounce has fired on an update repeating the text last sent, and has
\* dropped it without an edit.
C2_Witness ==
  /\ ev.op = "flushEdit"
  /\ ev.calls = <<>>
  /\ hist.last # Null
  /\ hist.last = hist.base
  /\ hist.last = lastSentText
  /\ pendingText = Null
  /\ activeMessageId # 0

\* C3: in cleanup(), the forced edit has settled, ok or not, before the
\* delete is issued: the two are never in flight together, the delete is
\* never issued first, and a failed edit is followed by the delete all the
\* same.
C3_EditSettlesBeforeDelete ==
  call.op = "cleanup" =>
    /\ ~(\E e, d \in InFlight(net) :
           e.kind = "edit" /\ e.by = "cleanup" /\ d.kind = "delete")
    /\ (Len(call.log) >= 1 /\ call.log[1].kind = "delete") => Len(call.log) = 1
    /\ Len(call.log) = 2 =>
         /\ call.log[1].kind = "edit"
         /\ call.log[2].kind = "delete"
         /\ call.log[2].msg = call.log[1].msg
         /\ Len(call.res) >= 1
    /\ (/\ call.pc = "idle"
        /\ call.pre.active # 0
        /\ call.pre.pending # Null
        /\ call.pre.pending # call.pre.last)
         => (Len(call.log) = 2 /\ call.log[1].body = Rendered(call.pre.pending))

\* cleanup() has returned after its forced edit failed and its delete was
\* issued.
C3_Witness ==
  /\ call.op = "cleanup"
  /\ call.pc = "idle"
  /\ Len(call.log) = 2
  /\ call.res[1] = "fail"
  /\ call.log[2].kind = "delete"

\* C4: cleanup() on a tracker that has received no update issues no edit
\* and no delete.
C4_CleanupWithoutUpdates ==
  (call.op = "cleanup" /\ call.pre.received = 0) => call.log = <<>>

\* cleanup() has returned on a tracker that had received nothing.
C4_Witness ==
  /\ call.op = "cleanup"
  /\ call.pc = "idle"
  /\ call.result = "returned"
  /\ call.pre.received = 0
  /\ ev.op = "cleanup"

\* C5: cleanup() on a tracker that received exactly one text update, which
\* created the message, issues no edit and exactly one delete, of the id the
\* creating send returned.
C5_CleanupAfterOneUpdate ==
  (call.op = "cleanup" /\ call.pre.received = 1 /\ call.pre.sentId # 0) =>
    /\ "edit" \notin Kinds(call.log)
    /\ call.pc = "idle" =>
         /\ Len(call.log) = 1
         /\ call.log[1].kind = "delete"
         /\ call.log[1].msg = call.pre.sentId

\* cleanup() has returned after deleting the message of the only update.
C5_Witness ==
  /\ call.op = "cleanup"
  /\ call.pc = "idle"
  /\ call.pre.received = 1
  /\ call.pre.sentId # 0
  /\ Len(call.log) = 1

\* C6: stop() issues no remote call, and while stop() is the last call made
\* no step issues one, however much time passes, even if a text was buffered
\* and the debounce pending when stop() was called.
C6_StopIsSilent ==
  call.op = "stop" => ev.calls = <<>>

\* A whole debounce window has passed since stop() was called on a tracker
\* with a buffered text.
C6_Witness ==
  /\ call.op = "stop"
  /\ hist.since >= DEBOUNCE_MS
  /\ activeMessageId # 0
  /\ pendingText # Null
  /\ pendingText # lastSentText

\* C7: after stop() and until cleanup() is called, a handleToolUpdate call,
\* whatever its payload, issues no remote call, schedules no timer and
\* changes no field of the tracker.
C7_IgnoredAfterStop ==
  [][(hist.stopCalled /\ ev'.op = "handleToolUpdate")
       => /\ ev'.calls = <<>>
          /\ net' = net
          /\ timers' = timers
          /\ UNCHANGED tracker
          /\ call'.pc = "idle"
          /\ call'.result = "returned"]_vars

\* A media payload has been given to a stopped tracker that has a message.
C7_Witness ==
  /\ hist.stopCalled
  /\ ev.op = "handleToolUpdate"
  /\ ev.kind = "media"
  /\ activeMessageId # 0

\* C8: on a tracker that is not stopped, a payload carrying media, with or
\* without text, is forwarded once to the delivery function and to nothing
\* else, and activeMessageId, pendingText, lastSentText and the debounce
\* task stay as they are, also when the forward settles.
C8_MediaBypasses ==
  [][/\ (~stopped /\ ev'.op = "handleToolUpdate" /\ ev'.kind = "media")
          => /\ Len(ev'.calls) = 1
             /\ ev'.calls[1].kind = "deliver"
             /\ ev'.calls[1].payload \in MediaPayloads
             /\ call'.pc = "awaitDeliver"
             /\ call'.log = ev'.calls
             /\ UNCHANGED <<tracker, timers>>
     /\ ev'.op = "deliverResolved"
          => /\ call'.log = call.log
             /\ call'.pc = "idle"
             /\ UNCHANGED <<tracker, timers>>]_vars

\* A payload with text and a gallery has been forwarded while a message was
\* tracked and a debounce window open.
C8_Witness ==
  /\ ev.op = "handleToolUpdate"
  /\ ev.kind = "media"
  /\ call.pc = "awaitDeliver"
  /\ call.log[1].payload = Payload(TextA, "", <<GalleryUrls>>)
  /\ activeMessageId # 0
  /\ debounceTimer # 0

\* C9: no call into the tracker ends by rejecting: a failure of a remote
\* call (send, forward, edit, delete) never reaches the caller.
C9_NoRejection ==
  call.result # "rejected"

\* The fields of the tracker as createToolUpdateTracker leaves them.
Reset ==
  /\ activeMessageId = 0
  /\ pendingText = Null
  /\ lastSentText = EmptyText
  /\ debounceTimer = 0
  /\ timers = {}
  /\ stopped = FALSE

\* C10: when cleanup() has returned, whatever the state it was called in
\* and whether or not its edit or delete failed, every field has its initial
\* value, and the next update with a text is sent as a new message.
C10_CleanupResets ==
  [][/\ (call'.op = "cleanup" /\ call'.pc = "idle") => Reset'
     /\ (/\ call.op = "cleanup"
         /\ call.pc = "idle"
         /\ ev'.op = "handleToolUpdate"
         /\ ev'.kind = "text")
          => (Kinds(ev'.calls) = {"send"} /\ pendingText' = Null /\ timers' = {})]_vars

\* cleanup() has returned on a stopped tracker after its delete failed.
C10_Witness ==
  /\ call.op = "cleanup"
  /\ call.pc = "idle"
  /\ call.pre.stopped
  /\ call.pre.active # 0
  /\ call.res # <<>>
  /\ call.res[Len(call.res)] = "fail"

\* An edit issued by the debounce is in flight, or cleanup is under way.
EditUnsettled ==
  \/ \E r \in InFlight(net) : r.kind = "edit"
  \/ call.pc \in {"awaitEdit", "awaitDelete"}

\* C11: while a message is tracked and no edit is unsettled, lastSentText
\* (truncated as it is sent) is the text the transport last accepted for that
\* message: an edit that fails leaves lastSentText as it was.
C11_LastSentIsDelivered ==
  (activeMessageId # 0 /\ ~EditUnsettled)
    => truncateText(lastSentText, TELEGRAM_TEXT_LIMIT) = hist.shown

\* C12: at most one debounce timer is scheduled, debounceTimer is the handle
\* of the one that is, and the debounce callback runs at most once per burst
\* of buffered updates.
C12_OneDebounceTask ==
  /\ Cardinality(timers) <= 1
  /\ \A t \in timers : t.id = debounceTimer
  /\ debounceTimer # 0 => \E t \in timers : t.id = debounceTimer
  /\ hist.fired <= 1

\* A burst of two or more buffered updates whose debounce has run.
C12_Witness == hist.n = 2 /\ hist.fired = 1 /\ timers = {}

\* ------------------------------------------------- parseProofreadResponse
\* No candidate of the cascade was accepted by JSON.parse.
NothingParsed == pr.pc = "done" /\ pr.parsed = Undefined

\* C13: when no candidate parses, the result is built from the original text
\* alone: corrected_voice is originalText, corrected_text is originalText
\* without its emotion tags, changes is empty, unchanged is true and error is
\* set; nothing of the reply is in it.
C13_FailureFromOriginalOnly ==
  NothingParsed =>
    \E original \in Originals :
      /\ original.text = pr.originalText
      /\ pr.result.corrected_voice = original.text
      /\ pr.result.corrected_text = original.clean
      /\ pr.result.changes = <<>>
      /\ pr.result.unchanged = TRUE
      /\ pr.result.error # NoError

\* "not json at all" has been parsed for a text with emotion tags.
C13_Witness ==
  /\ NothingParsed
  /\ pr.raw = "not json at all"
  /\ pr.originalText = "[whispers] hello [laughs] world"

\* The voice text of the result was not taken from the reply.
VoiceFellBack ==
  /\ ~IsString(Get(pr.parsed, "corrected_voice"))
  /\ ~IsString(Get(pr.parsed, "corrected"))

\* C14: a result for which no correction can be asserted (nothing parsed, or
\* the reply holds neither a string corrected_voice nor a string corrected)
\* has unchanged = true.
C14_UnchangedWithoutCorrection ==
  (pr.pc = "done" /\ VoiceFellBack) => pr.result.unchanged = TRUE

\* C15: a well-formed JSON object with the four fields of their types comes
\* back field for field, with no error, whatever originalText is.
C15_WellFormedFieldForField ==
  pr.pc = "done" =>
    \A w \in WellFormedReplies : pr.raw = w.raw => pr.result = w.o

\* A pretty-printed well-formed reply with escapes in its values has been
\* parsed for a text with emotion tags.
C15_Witness ==
  /\ pr.pc = "done"
  /\ pr.originalText = "[whispers] hello [laughs] world"
  /\ \E w \in WellFormedReplies :
       /\ pr.raw = w.raw
       /\ w.o.corrected_text = "Line one."
       /\ w.o.corrected_voice = "[soft] Line one.\n[whispers] Line two."
       /\ Len(w.o.changes) = 2
       /\ IndexOf(w.raw, "\n", 1) # 0

\* C16: a reply that is well-formed but for trailing commas, raw line breaks
\* inside string values, or both, gives the result of the well-formed reply:
\* every string value, also one with a comma before } or ], is the same.
C16_RepairedSameAsWellFormed ==
  pr.pc = "done" =>
    \A w \in MalformedReplies : pr.raw = w.raw => pr.result = w.o

\* The call was given parameters that the guards turn away: correction not
\* explicitly enabled, no text or a trimmed text shorter than 20 characters,
\* or no agentDir.
NotEligible(params) ==
  \/ params.cfg.proofread = None
  \/ (params.cfg.proofread # None /\ ~params.cfg.proofread[1].auto)
  \/ params.payload.text = None
  \/ (params.payload.text # None /\ Len(trim(params.payload.text[1])) < 20)
  \/ params.agentDir = None

TurnedAway(c) ==
  /\ attempt[c].pc = "idle"
  /\ attempt'[c].pc # "idle"
  /\ NotEligible(attempt'[c].params)

\* C17: a call of maybeProofreadPayload whose parameters the guards turn away
\* (correction not enabled, trimmed text missing, empty or shorter than 20
\* characters, agentDir missing) returns the very payload it was given in the
\* step of the call, leaves the ring as it was, and never makes a completion
\* call.
C17_GuardedCallPassesThrough ==
  /\ [](\A c \in ProofCalls :
          (attempt[c].pc # "idle" /\ NotEligible(attempt[c].params)) =>
            /\ attempt[c].pc = "returned"
            /\ attempt[c].completes = 0
            /\ attempt[c].settled = Some(SamePayload(attempt[c].params.payload)))
  /\ [][\A c \in ProofCalls : TurnedAway(c) => recentOutbound' = recentOutbound]_vars

\* A text of nineteen characters was turned away although correction is
\* enabled and agentDir is given.
C17_Witness ==
  \E c \in ProofCalls :
    /\ attempt[c].pc = "returned"
    /\ attempt[c].why = "short"
    /\ autoEnabled(attempt[c].params.cfg)
    /\ attempt[c].params.agentDir # None
    /\ attempt[c].params.payload.text # None
    /\ Len(trim(attempt[c].params.payload.text[1])) = 19

CarriesMedia(payload) == payload.mediaUrl # None \/ payload.mediaUrls # None

\* C18: no completion call is ever made for a payload that carries media
\* (mediaUrl or mediaUrls), and such a payload is returned as it was given.
C18_MediaPayloadNotCorrected ==
  \A c \in ProofCalls :
    (attempt[c].pc # "idle" /\ CarriesMedia(attempt[c].params.payload)) =>
      /\ attempt[c].completes = 0
      /\ attempt[c].pc = "returned"
      /\ attempt[c].settled = Some(SamePayload(attempt[c].params.payload))

\* The message is a completion failure whose error detail has the marker.
RateLimitFailure(m) ==
  /\ m.stopReason = "error"
  /\ m.errorMessage # None
  /\ \E i \in 1..Len(m.errorMessage[1]) : StartsWithAt(m.errorMessage[1], i, "429")

\* The diagnostic of a completion failure.
FailureDetail(m) ==
  IF m.errorMessage = None THEN "Cloud model returned an error" ELSE m.errorMessage[1]

\* C19: an attempt makes at most two completion calls; the second is made
\* exactly when the first came back as a completion error whose detail has
\* "429", and only after 2000 ms of waiting; what the second call returns is
\* final: if it is an error again, rate limit or not, the attempt ends as a
\* completion failure with the payload as it was given.
C19_OneRetryAfterDelay ==
  \A c \in ProofCalls :
    LET a == attempt[c] IN
    /\ a.completes <= 2
    /\ a.completes = 2 =>
         /\ a.first # None
         /\ RateLimitFailure(a.first[1])
         /\ a.waited = 2000
    /\ (a.first # None /\ RateLimitFailure(a.first[1])) =>
         /\ a.pc \in {"backoff", "retry", "returned"}
         /\ a.pc = "backoff" => a.completes = 1
         /\ a.pc \in {"retry", "returned"} => a.completes = 2
    /\ (a.pc = "returned" /\ a.second # None /\ a.second[1].stopReason = "error") =>
         /\ a.why = "completionError"
         /\ a.result # None
         /\ a.result[1].error = <<FailureDetail(a.second[1])>>
         /\ a.settled = Some(SamePayload(a.params.payload))

\* The retry was rate limited as well, and the attempt ended.
C19_Witness ==
  \E c \in ProofCalls :
    /\ attempt[c].pc = "returned"
    /\ attempt[c].completes = 2
    /\ attempt[c].second # None
    /\ RateLimitFailure(attempt[c].second[1])

\* The attempt ended without a correction to apply.
NoCorrection(a) ==
  \/ a.why \in {"modelNotFound", "threw", "completionError", "emptyResponse"}
  \/ (a.result # None /\ (a.result[1].error # NoError \/ a.result[1].unchanged))

\* C20: the promise of maybeProofreadPayload is never rejected, and it
\* resolves with the payload object it was given whenever the model was not
\* found, something threw, the completion ended in an error, the reply had
\* no text, or the parser's result carries an error or says unchanged.
C20_NeverRejects ==
  \A c \in ProofCalls :
    attempt[c].pc = "returned" =>
      /\ attempt[c].settled # None
      /\ attempt[c].settled[1].kind # "rejected"
      /\ NoCorrection(attempt[c]) =>
           attempt[c].settled = Some(SamePayload(attempt[c].params.payload))

\* The retry threw, and another call ended with a reply that did not parse.
C20_Witness ==
  \E c, d \in ProofCalls :
    /\ attempt[c].pc = "returned"
    /\ attempt[c].why = "threw"
    /\ attempt[c].completes = 2
    /\ attempt[d].pc = "returned"
    /\ attempt[d].why = "parsed"
    /\ attempt[d].result[1].error # NoError

\* C21: what maybeProofreadPayload returns is the payload it was given, or a
\* payload whose text is corrected_text, a line feed, "[[tts:text]]",
\* corrected_voice and "[[/tts:text]]", with mediaUrl and mediaUrls as given;
\* the second only when the result has no error and unchanged is false.
C21_SameOrCombined ==
  \A c \in ProofCalls :
    attempt[c].pc = "returned" =>
      \/ attempt[c].settled = Some(SamePayload(attempt[c].params.payload))
      \/ /\ attempt[c].result # None
         /\ attempt[c].result[1].error = NoError
         /\ ~attempt[c].result[1].unchanged
         /\ attempt[c].settled =
              Some(NewPayload(
                [text |-> Some(attempt[c].result[1].corrected_text \o "\n"
                                 \o "[[tts:text]]"
                                 \o attempt[c].result[1].corrected_voice
                                 \o "[[/tts:text]]"),
                 mediaUrl |-> attempt[c].params.payload.mediaUrl,
                 mediaUrls |-> attempt[c].params.payload.mediaUrls]))

\* A correction with its voice text came back in a new payload.
C21_Witness ==
  \E c \in ProofCalls :
    /\ attempt[c].pc = "returned"
    /\ attempt[c].settled[1].kind = "new"
    /\ attempt[c].result[1].corrected_text = "Line one."
    /\ attempt[c].result[1].corrected_voice = "[soft] Line one."

\* The last n elements of a sequence (all of it when it has fewer).
LastOf(seq, n) == SubSeq(seq, Len(seq) - Min(n, Len(seq)) + 1, Len(seq))

\* C22: after any pushes, for the same or for different session keys, the
\* ring of a key holds at most 3 texts: the last pushed for that key, in the
\* order of the pushes; a push changes the ring of its own key only, and on
\* a full ring it drops the oldest text and nothing else.
C22_RingHoldsLastThree ==
  /\ [](\A k \in SessionKeys :
          /\ Len(recentOutbound[k]) <= 3
          /\ recentOutbound[k] = LastOf(pushed[k], 3))
  /\ [][\A k \in SessionKeys :
          \/ recentOutbound'[k] = recentOutbound[k] /\ pushed'[k] = pushed[k]
          \/ /\ \A j \in SessionKeys \ {k} : recentOutbound'[j] = recentOutbound[j]
             /\ IF Len(recentOutbound[k]) = 3
                  THEN /\ Len(recentOutbound'[k]) = 3
                       /\ SubSeq(recentOutbound'[k], 1, 2) = Tail(recentOutbound[k])
                  ELSE SubSeq(recentOutbound'[k], 1, Len(recentOutbound[k]))
                         = recentOutbound[k]]_vars

\* A fourth text was pushed for a key whose ring was full, and another key
\* has a text of its own.
C22_Witness ==
  \E k \in SessionKeys :
    /\ Len(pushed[k]) = 4
    /\ pushed[k][1] # pushed[k][4]
    /\ \E j \in SessionKeys \ {k} : Len(pushed[j]) = 1

\* The call c returns in this step.
Returns(c) == attempt[c].pc # "returned" /\ attempt'[c].pc = "returned"

\* The attempt a ended without a usable result: at a guard, in an exception,
\* or with a result that carries an error.
EndedInError(a) ==
  \/ a.why \in {"disabled", "short", "noAgentDir", "threw", "modelNotFound",
                "completionError", "emptyResponse"}
  \/ a.result = None
  \/ (a.result # None /\ a.result[1].error # NoError)

\* C23: the ring is written only in the step in which a call of
\* maybeProofreadPayload returns from its awaited attempt: nothing is pushed
\* by a call stopped at a guard, nor by one whose attempt ended in an error
\* result or an exception, nor without a session key; otherwise exactly one
\* text is pushed for the call's session key, the corrected display text, or
\* the (trimmed) input text when the result says unchanged.
C23_PushOnlyAfterAttempt ==
  [][/\ (\A c \in ProofCalls : ~Returns(c)) => UNCHANGED ringVars
     /\ \A c \in ProofCalls :
          Returns(c) =>
            IF EndedInError(attempt'[c]) \/ attempt'[c].params.sessionKey = None
              THEN UNCHANGED ringVars
              ELSE pushed' =
                     [pushed EXCEPT ![attempt'[c].params.sessionKey[1]] =
                        Append(@, IF attempt'[c].result[1].unchanged
                                    THEN attempt'[c].text
                                    ELSE attempt'[c].result[1].corrected_text)]]_vars

\* ---------------------------------------------------------------- C24 .. C26
\* One of the two sentinel tokens stands somewhere in s.
HasSentinel(s) ==
  \E i \in 1..Len(s) : MatchesAt(s, i, OpenToken) \/ MatchesAt(s, i, CloseToken)

\* A text with no sentinel token and no white space around it.
Plain(s) == ~HasSentinel(s) /\ trim(s) = s

\* The payload was written from a non-empty display text and a voice text,
\* both plain, with the given closing token.
WrittenPlain(closing) ==
  /\ dc.closing = Some(closing)
  /\ dc.display[1] # ""
  /\ Plain(dc.display[1])
  /\ Plain(dc.voice[1])

\* C24: a payload encoded as display + "\n" + "[[tts:text]]" + voice +
\* "[[/tts:text]]" from a non-empty display text and a voice text, both
\* without sentinel token and without white space around them, decodes for
\* display to exactly the display text and for the voice hint to exactly the
\* voice text.
C24_RoundTrip ==
  WrittenPlain(CloseToken) =>
    /\ dc.shown # None => dc.shown[1].payload.text = dc.display
    /\ dc.hint # None => dc.hint[1] = dc.voice

\* C25: stripTtsDirectivesForDisplay never turns a non-empty text into an
\* empty one: when removing the spans and trimming leaves nothing, the text is
\* the original one; and a payload without text comes back as the same object.
C25_NeverEmptied ==
  dc.shown # None =>
    /\ dc.payload.text = None => dc.shown[1] = SamePayload(dc.payload)
    /\ dc.payload.text # None /\ dc.payload.text # Some("") =>
         /\ dc.shown[1].payload.text # None
         /\ dc.shown[1].payload.text # Some("")
         /\ dc.shown[1].payload.mediaUrl = dc.payload.mediaUrl
         /\ cleanText(dc.payload.text[1]) = "" =>
              dc.shown[1].payload.text = dc.payload.text

\* A text that is one span and nothing else was decoded for display, and a
\* payload with no text was.
C25_Witness ==
  /\ dc.shown # None
  /\ \/ /\ dc.payload.text = Some("[[tts:text]]only voice[[/tts:text]]")
        /\ dc.shown[1].payload.text = dc.payload.text
     \/ /\ dc.payload.text = None
        /\ dc.shown[1].kind = "same"

\* C26: a span closed by "[[[/tts:text]]" is decoded like one closed by
\* "[[/tts:text]]": the display text and the text to proofread are the display
\* text alone, and the voice hint is exactly the inner content.
C26_ExtraBracketTolerated ==
  WrittenPlain(CloseTokenExtraBracket) =>
    /\ dc.shown # None => dc.shown[1].payload.text = dc.display
    /\ dc.clean # None => dc.clean = dc.display
    /\ dc.hint # None => dc.hint[1] = dc.voice

\* ---------------------------------------------------------------- C27 .. C30
\* The step is a handleToolUpdate call with a text that is not blank and no
\* media.
TextUpdate == ev'.op = "handleToolUpdate" /\ ev'.kind = "text"

\* The step issues one send, at once: no timer is involved.
SendsNow ==
  /\ Len(ev'.calls) = 1
  /\ ev'.calls[1].kind = "send"
  /\ call'.pc = "awaitSend"
  /\ timers' = timers

\* The step only buffers its text: no remote call, the text is pending and
\* the debounce runs from now.
OnlyBuffers ==
  /\ ev'.calls = <<>>
  /\ net' = net
  /\ pendingText' = hist'.latest
  /\ pendingText' # Null
  /\ \E t \in timers' : t.id = debounceTimer' /\ t.remaining = DEBOUNCE_MS

\* C27 as stated: with every send returning a message id, one send is issued
\* between two cleanup() calls however many text updates arrive: the first
\* update sends at once, every later one only buffers.
C27_ExactlyOneSend ==
  /\ [](~hist.noId => hist.sends <= 1)
  /\ [][(TextUpdate /\ ~hist.noId) =>
          IF hist.sends = 0 THEN SendsNow ELSE OnlyBuffers]_vars

\* C27: the same on a tracker that is not stopped; whether stopped or not, no
\* second send is issued.
C27_OneSendUnlessStopped ==
  /\ [](~hist.noId => hist.sends <= 1)
  /\ [][(TextUpdate /\ ~hist.noId) =>
          IF stopped THEN ev'.calls = <<>>
          ELSE IF hist.sends = 0 THEN SendsNow
          ELSE OnlyBuffers]_vars

\* Two or more text updates were buffered after the one send, which returned
\* an id.
C27_Witness ==
  /\ ev.op = "handleToolUpdate"
  /\ ev.kind = "text"
  /\ ev.calls = <<>>
  /\ ~stopped
  /\ ~hist.noId
  /\ hist.sends = 1
  /\ hist.sentId # 0
  /\ hist.n = 2

\* An edit issued by the debounce callback has not settled.
FlushInFlight == \E r \in InFlight(net) : r.kind = "edit" /\ r.by = "flushEdit"

\* C28: stop() called while the edit of a flush is in flight leaves that edit
\* in flight and returns normally; from then until cleanup() is called no
\* timer is scheduled and no step issues a remote call, while the edit settles
\* as it would have.
C28_StopDuringFlush ==
  /\ [](hist.stopCalled => (timers = {} /\ ev.calls = <<>>))
  /\ [][(ev'.op = "stop" /\ FlushInFlight) =>
          /\ net' = net
          /\ call'.pc = "idle"
          /\ call'.result = "returned"
          /\ stopped']_vars
  /\ [][(hist.stopCalled /\ ev'.op \notin {"cleanup"}) =>
          \A r \in InFlight(net') : r \in InFlight(net)]_vars

\* stop() was called while the edit of a flush was in flight, a text was
\* buffered after that edit was issued, a whole debounce window has passed
\* and the edit has settled without failing.
C28_Witness ==
  /\ hist.stopCalled
  /\ call.op = "stop"
  /\ ev.op = "flushEditOk"
  /\ pendingText # Null
  /\ hist.since >= DEBOUNCE_MS

\* The body of an edit that carries the given text.
EditBody(text) == markdownToTelegramHtml(truncateText(text, TELEGRAM_TEXT_LIMIT))

\* Every edit the step issues carries the text of the latest update accepted.
EditsCarryLatest ==
  \A i \in 1..Len(ev'.calls) :
    ev'.calls[i].kind = "edit" =>
      /\ hist.latest # Null
      /\ ev'.calls[i].body = EditBody(hist.latest)

\* The text pending reaches the message: the step issues its edit, or an edit
\* carrying it is still in flight, or the message shows it already.
PendingNotLost ==
  \/ \E i \in 1..Len(ev'.calls) :
       ev'.calls[i].kind = "edit" /\ ev'.calls[i].body = EditBody(pendingText)
  \/ \E r \in InFlight(net) : r.kind = "edit" /\ r.body = EditBody(pendingText)
  \/ hist.shown = truncateText(pendingText, TELEGRAM_TEXT_LIMIT)

\* C29: an edit, issued by the debounce or by cleanup(), carries the text of
\* the latest text update accepted before it, never an earlier one; an update
\* that arrives for the tracked message while an edit is in flight is
\* buffered, and when the debounce then fires its text is not lost.
C29_LatestTextFlushed ==
  /\ [][EditsCarryLatest]_vars
  /\ [][(TextUpdate /\ ~stopped /\ activeMessageId # 0 /\ FlushInFlight)
        => OnlyBuffers]_vars
  /\ [][(/\ ev'.op = "flushEdit"
         /\ hist.overlap
         /\ ~stopped
         /\ activeMessageId # 0
         /\ pendingText # Null) => PendingNotLost]_vars

\* C30: a text update whose text is missing, empty or blank issues no remote
\* call and changes no field of the tracker and no timer: the text pending
\* stays, the debounce window is not restarted, and the debounce fires 2000 ms
\* after the last update that was buffered.
C30_BlankUpdateIsNoOp ==
  /\ [][(ev'.op = "handleToolUpdate" /\ ev'.kind = "empty") =>
          /\ ev'.calls = <<>>
          /\ net' = net
          /\ timers' = timers
          /\ UNCHANGED tracker
          /\ call'.pc = "idle"
          /\ call'.result = "returned"]_vars
  /\ [][ev'.op = "flushEdit" => hist.since = DEBOUNCE_MS]_vars

\* A blank update arrived in the middle of the debounce window of a buffered
\* text, and the window ran on.
C30_Witness ==
  /\ ev.op = "handleToolUpdate"
  /\ ev.kind = "empty"
  /\ ~stopped
  /\ pendingText # Null
  /\ hist.since > 0
  /\ \E t \in timers : t.id = debounceTimer /\ t.remaining = DEBOUNCE_MS - hist.since

\* ---------------------------------------------------------------- C31 .. C34
\* The texts of the cascade for the extracted text: as it is, with trailing
\* commas removed, with line breaks escaped, with both.
Cascade(k) ==
  CASE k = 1 -> pr.jsonStr
    [] k = 2 -> fixTrailingCommas(pr.jsonStr)
    [] k = 3 -> repairJsonNewlines(pr.jsonStr)
    [] k = 4 -> repairJsonNewlines(fixTrailingCommas(pr.jsonStr))

\* The loop has ended on the first text of the cascade that parses, and holds
\* its value.
EndedOnFirstThatParses ==
  LET Ended(last) ==
        /\ \A k \in 1..(pr.tried - 1) : ~JSONparse(Cascade(k)).ok
        /\ pr.tried < 4 => last.ok
        /\ last.ok => pr.parsed = last.v
  IN pr.tried \in 1..4 /\ Ended(JSONparse(Cascade(pr.tried)))

\* A string value of the stated result has a line feed, or a comma before a
\* closing bracket.
HasEscapedOrComma(o) ==
  \/ o.corrected_voice \in CommaValues
  \/ o.corrected_text \in CommaValues
  \/ IndexOf(o.corrected_voice, "\n", 1) # 0
  \/ \E i \in 1..Len(o.changes) :
       o.changes[i] = "fix,]" \/ IndexOf(o.changes[i], "\n", 1) # 0

\* C31: the candidates are tried in the order strict, trailing commas
\* removed, line breaks escaped, both, and the loop ends on the first that
\* parses; a text that parses as it is goes through no repair, so a
\* well-formed reply whose string values hold escaped line feeds or a comma
\* before } or ] comes back with those values unaltered.
C31_FirstParseWins ==
  /\ pr.pc = "parsed" => EndedOnFirstThatParses
  /\ pr.pc = "done" =>
       \A w \in WellFormedReplies :
         (pr.raw = w.raw /\ HasEscapedOrComma(w.o)) =>
           /\ pr.tried = 1
           /\ pr.result.corrected_text = w.o.corrected_text
           /\ pr.result.corrected_voice = w.o.corrected_voice
           /\ pr.result.changes = w.o.changes

\* A well-formed reply with a comma before a closing bracket in its values
\* was parsed as it is.
C31_Witness ==
  /\ pr.pc = "done"
  /\ pr.tried = 1
  /\ \E w \in WellFormedReplies :
       /\ pr.raw = w.raw
       /\ w.o.corrected_voice = "a, }b"
       /\ w.o.changes = <<"fix,]">>
       /\ pr.result.corrected_voice = "a, }b"

\* The quotes before position i that toggle the quote state: those not
\* preceded by an odd run of backslashes.
TogglesBefore(s, i) ==
  {j \in 1..(i - 1) : At(s, j) = "\"" /\ ~IsEscaped(s, 1, j)}

\* Position i lies inside a quoted string.
InsideString(s, i) == Cardinality(TogglesBefore(s, i)) % 2 = 1

\* A raw line feed or carriage return.
IsLineBreak(c) == c = "\n" \/ c = "\r"

EscapeOf(c) == IF c = "\n" THEN "\\n" ELSE "\\r"

\* The text with every line break inside a quoted string escaped, and every
\* other character as it is.
EscapedInsideStep(s, i, st) ==
  IF IsLineBreak(At(s, i)) /\ InsideString(s, i)
    THEN Pass(EscapeOf(At(s, i)), i + 1, st)
    ELSE Pass(At(s, i), i + 1, st)

\* The same, but for a line break that follows a backslash escape, which is
\* left as it is.
EscapedUnlessEscapedStep(s, i, st) ==
  IF IsLineBreak(At(s, i)) /\ InsideString(s, i) /\ ~IsEscaped(s, 1, i)
    THEN Pass(EscapeOf(At(s, i)), i + 1, st)
    ELSE Pass(At(s, i), i + 1, st)

\* No raw line break stands inside a quoted string.
NoBreakInsideString(s) ==
  \A i \in 1..Len(s) : IsLineBreak(At(s, i)) => ~InsideString(s, i)

Repaired == fn.name = "repairJsonNewlines" /\ fn.out # None

BlockAt(s, i, g, c) ==
  /\ StartsWithAt(s, i, Fence)
  /\ g > AfterJsonTag(s, i + 3)
  /\ At(s, g - 1) = "\n"
  /\ \A k \in AfterJsonTag(s, i + 3)..(g - 1) : IsSpace(At(s, k))
  /\ c >= g
  /\ StartsWithAt(s, c, Fence)
  /\ \A k \in g..(c - 1) : ~StartsWithAt(s, k, Fence)

HasBlockAt(s, i) == \E g \in 1..Len(s), c \in 1..Len(s) : BlockAt(s, i, g, c)

\* The text without a fence marker at its very start (the fence, the tag and
\* the white space after it) and without a fence at its very end.
WithoutEndMarkers(s) ==
  LET AtEnd(t) ==
        IF Len(t) >= 3 /\ SubSeq(t, Len(t) - 2, Len(t)) = Fence
          THEN trimEnd(SubSeq(t, 1, Len(t) - 3)) ELSE t
      AtStart(t) ==
        IF StartsWithAt(t, 1, Fence) THEN From(t, SkipSpace(t, AfterJsonTag(t, 4))) ELSE t
  IN AtEnd(AtStart(s))

Stripped == fn.name = "stripCodeFences" /\ fn.out # None

\* C33: when the text holds a fenced block, stripCodeFences returns the
\* trimmed interior of the first one and nothing of what stands before or
\* after it; when it holds none, the text trimmed, less a fence marker at its
\* very start and a fence at its very end; a text with no fence comes back
\* trimmed.
C33_FirstBlockOrEnds ==
  Stripped =>
    LET s == trim(fn.arg)
        Of(first) ==
          IF first <= Len(s)
            THEN \E g \in 1..Len(s), c \in 1..Len(s) :
                   BlockAt(s, first, g, c) /\ fn.out[1] = trim(SubSeq(s, g, c - 1))
            ELSE /\ fn.out[1] = WithoutEndMarkers(s)
                 /\ IndexOf(s, Fence, 1) = 0 => fn.out[1] = s
    IN Of(FirstSuch(LAMBDA i : HasBlockAt(s, i), 1, Len(s)))

\* A text with a preamble, two blocks and a tail came back as the trimmed
\* interior of the first block.
C33_Witness ==
  /\ Stripped
  /\ fn.arg = "Here it is: ~~~JSON  \n\n {\"a\":1} \n~~~ and then\n~~~\n{\"b\":2}\n~~~ bye"
  /\ fn.out[1] = "{\"a\":1}"

\* A field of the parsed reply (undefined when the reply has none).
StringField(name) == Get(pr.parsed, name)

\* C34: on a successful parse the voice text is the field corrected_voice if
\* it is a string, else the field corrected if it is a string, else the
\* original text; the display text is the field corrected_text if it is a
\* string, else the voice text without its emotion tags; and unchanged is true
\* only for the boolean true.
C34_FieldFallbacks ==
  (pr.pc = "done" /\ Truthy(pr.parsed)) =>
    /\ StringField("corrected_voice").t = "string" =>
         pr.result.corrected_voice = StringField("corrected_voice").s
    /\ (StringField("corrected_voice").t # "string" /\ StringField("corrected").t = "string") =>
         pr.result.corrected_voice = StringField("corrected").s
    /\ (StringField("corrected_voice").t # "string" /\ StringField("corrected").t # "string") =>
         pr.result.corrected_voice = pr.originalText
    /\ StringField("corrected_text").t = "string" =>
         pr.result.corrected_text = StringField("corrected_text").s
    /\ StringField("corrected_text").t # "string" =>
         pr.result.corrected_text = stripEmotionTags(pr.result.corrected_voice)
    /\ pr.result.unchanged = (Get(pr.parsed, "unchanged") = JBoolean(TRUE))
    /\ pr.raw \in {"{\"unchanged\":\"true\"}", "{\"unchanged\":1}", "42"} =>
         pr.result.unchanged = FALSE

\* A reply with a corrected_voice that is no string and a legacy field was
\* parsed: the voice text is the legacy field, the display text is the voice
\* text without its tag.
C34_Witness ==
  /\ pr.pc = "done"
  /\ pr.raw = "{\"corrected_voice\":7,\"corrected\":\"[soft] old\",\"unchanged\":true}"
  /\ pr.result.corrected_voice = "[soft] old"
  /\ pr.result.corrected_text = "old"
  /\ pr.result.unchanged = TRUE

\* ---------------------------------------------------------------- C35 .. C39
\* A delete of message m has been issued and has not settled.
DeleteUnsettled(m) == \E d \in InFlight(net) : d.kind = "delete" /\ d.msg = m

\* C35: every edit is issued for the message that is tracked, which is the
\* one the last send that returned an id created; none is issued while no
\* message is tracked, and none for a message whose delete has been issued.
C35_EditsTargetTrackedMessage ==
  [][\A i \in 1..Len(ev'.calls) :
       ev'.calls[i].kind = "edit" =>
         /\ activeMessageId # 0
         /\ ev'.calls[i].msg = activeMessageId
         /\ ev'.calls[i].msg = hist.sentId
         /\ ~DeleteUnsettled(ev'.calls[i].msg)
         /\ call.pc \notin {"awaitEdit", "awaitDelete"}]_vars

\* The debounce has issued an edit for the second message of the tracker
\* while the edit of a message deleted before was still unsettled.
C35_Witness ==
  /\ ev.op = "flushEdit"
  /\ Len(ev.calls) = 1
  /\ ev.calls[1].msg = activeMessageId
  /\ \E r \in InFlight(net) : r.kind = "edit" /\ r.msg # activeMessageId

\* A text is buffered on a tracker that is not stopped.
Buffered == pendingText # Null /\ ~stopped

\* Time has passed since the text was buffered.
Waiting == Buffered /\ hist.since > 0

\* A newer update has just been buffered: no time has passed since.
Superseded == Buffered /\ hist.since = 0

\* C36: with timers firing, a buffered text does not stay pending for ever:
\* it is flushed (issued as an edit, or dropped because it equals
\* lastSentText), or a newer update takes its place, or stop() is called.
\* When the debounce fires on a buffered text, 2000 ms have passed since the
\* last update, the text is issued as an edit unless it equals lastSentText,
\* and nothing is pending afterwards.
C36_BufferedIsResolved ==
  /\ Buffered ~> (Waiting \/ pendingText = Null \/ stopped)
  /\ Waiting ~> (pendingText = Null \/ stopped \/ Superseded)
  /\ [](Buffered => \E t \in timers : t.id = debounceTimer)
  /\ [][(ev'.op = "flushEdit" /\ Buffered) =>
          /\ hist.since = DEBOUNCE_MS
          /\ pendingText' = Null
          /\ \/ /\ Len(ev'.calls) = 1
                /\ ev'.calls[1].kind = "edit"
                /\ ev'.calls[1].body = EditBody(pendingText)
             \/ /\ ev'.calls = <<>>
                /\ pendingText = lastSentText]_vars

\* The window of a buffered update has expired with no call in between, the
\* debounce has issued its edit and nothing is pending.
C36_Witness ==
  /\ ev.op = "flushEdit"
  /\ Len(ev.calls) = 1
  /\ call.op = "handleToolUpdate"
  /\ call.pc = "idle"
  /\ hist.n = 1
  /\ hist.since = DEBOUNCE_MS
  /\ pendingText = Null
  /\ timers = {}

\* cleanup() has returned from a call made on a stopped tracker.
CleanupAfterStopReturned ==
  call.op = "cleanup" /\ call.pc = "idle" /\ call.pre.stopped

\* C37: stop() leaves activeMessageId, pendingText and lastSentText as they
\* are.  cleanup() called on a stopped tracker with a message and a pending
\* text other than lastSentText issues one edit of that text for that
\* message first; when it returns it has issued at most one edit, its last
\* remote call was the delete of the tracked message, and the stopped flag is
\* cleared.  The next update with a text is then sent as a new message.
C37_CleanupAfterStopFlushes ==
  [][/\ ev'.op = "stop"
          => /\ stopped'
             /\ UNCHANGED <<activeMessageId, pendingText, lastSentText>>
     /\ (/\ ev'.op = "cleanup"
         /\ stopped
         /\ activeMessageId # 0
         /\ pendingText # Null
         /\ pendingText # lastSentText)
          => /\ Len(ev'.calls) = 1
             /\ ev'.calls[1].kind = "edit"
             /\ ev'.calls[1].msg = activeMessageId
             /\ ev'.calls[1].body = EditBody(pendingText)
     /\ CleanupAfterStopReturned'
          => /\ ~stopped'
             /\ Cardinality({i \in DOMAIN call'.log : call'.log[i].kind = "edit"}) <= 1
             /\ call'.pre.active # 0
                  => /\ call'.log # <<>>
                     /\ call'.log[Len(call'.log)].kind = "delete"
                     /\ call'.log[Len(call'.log)].msg = call'.pre.active
             /\ (/\ call'.pre.active # 0
                 /\ call'.pre.pending # Null
                 /\ call'.pre.pending # call'.pre.last)
                  => (Len(call'.log) = 2 /\ call'.log[1].kind = "edit")
     /\ (CleanupAfterStopReturned /\ TextUpdate) => SendsNow]_vars

\* cleanup() has returned from a call made on a stopped tracker that had a
\* message and a buffered text other than lastSentText.
C37_Witness ==
  /\ CleanupAfterStopReturned
  /\ call.pre.active # 0
  /\ call.pre.pending # Null
  /\ call.pre.pending # call.pre.last
  /\ Len(call.log) = 2
  /\ hist = NoHist
  /\ ~stopped

\* The creating send of the call under way has just returned no id.
SendGaveNoId == ev'.op = "sendResolved" /\ ev'.kind = "null"

\* C38: when the creating send settles without a message id, activeMessageId
\* and lastSentText stay as they were, nothing is buffered and no debounce
\* timer is scheduled.  While no send has returned an id since the last
\* cleanup(), every update with a text on a tracker that is not stopped
\* issues the creating send again, and cleanup() issues no delete.
C38_NoIdStaysIdle ==
  [][/\ SendGaveNoId
          => /\ UNCHANGED <<activeMessageId, lastSentText>>
             /\ pendingText' = Null
             /\ debounceTimer' = 0
             /\ timers' = {}
             /\ call'.pc = "idle"
     /\ (hist.noId /\ hist.sentId = 0 /\ ~stopped /\ TextUpdate) => SendsNow
     /\ (hist.noId /\ hist.sentId = 0 /\ ev'.op = "cleanup")
          => /\ ev'.calls = <<>>
             /\ call'.log = <<>>
             /\ call'.pc = "idle"]_vars

\* A second creating send is in flight after the first returned no id.
C38_Witness ==
  /\ hist.noId
  /\ hist.sentId = 0
  /\ hist.sends = 2
  /\ call.pc = "awaitSend"
  /\ activeMessageId = 0

\* The remote calls of kind k in the log of the call that has returned.
Issued(k) == {i \in DOMAIN call.log : call.log[i].kind = k}

\* C39: every id a send has returned is deleted by the next cleanup(), also
\* when handleToolUpdate is called again while the creating send is in
\* flight: between two cleanups at most one send is issued, unless one
\* returned no id, and at most one message exists.
C39_NoMessageLeftUntracked ==
  /\ ~hist.noId => hist.sends <= 1
  /\ Cardinality(hist.created) <= 1
  /\ (call.op = "cleanup" /\ call.pc = "idle")
       => \A m \in call.pre.created :
            \E i \in Issued("delete") : call.log[i].msg = m

ContextHeader == "Recent messages in this conversation (check for repetitive openings):\n"

\* The context that lists the texts of buf, oldest first, and no other.
Listing(buf) ==
  IF buf = <<>> THEN None
  ELSE Some(ContextHeader
              \o "[1] " \o buf[1]
              \o (IF Len(buf) >= 2 THEN "\n[2] " \o buf[2] ELSE "")
              \o (IF Len(buf) >= 3 THEN "\n[3] " \o buf[3] ELSE ""))

\* The call c is between its read of the ring and its return.
UnderWay(c) == attempt[c].pc \notin {"idle", "returned"}

\* The text the call c, which has returned without an error, pushed.
OutText(a) == IF a.result[1].unchanged THEN a.text ELSE a.result[1].corrected_text

\* C40: a call of maybeProofreadPayload reads its context when it is made:
\* the context lists the at most 3 texts the ring of the session holds then,
\* oldest first, which are the last texts pushed by the calls that have ended
\* before.  The context is not read again, so that no text pushed later, the
\* call's own included, enters it.  Calls that overlap push in the order in
\* which they end, each push appends to the ring and drops the oldest text
\* beyond 3.
C40_ContextReadBeforePush ==
  /\ [](\A k \in SessionKeys : Len(recentOutbound[k]) <= 3)
  /\ [][\A c \in ProofCalls :
          LET a == attempt[c]
              b == attempt'[c]
              k == b.params.sessionKey[1]
          IN /\ (a.pc = "idle" /\ UnderWay(c)')
                  => /\ b.context = Listing(LastOf(pushed[k], 3))
                     /\ UNCHANGED ringVars
             /\ UnderWay(c) => b.context = a.context
             /\ (UnderWay(c) /\ b.pc = "returned" /\ b.result # None
                   /\ b.result[1].error = NoError)
                  => /\ pushed'[k] = Append(pushed[k], OutText(b))
                     /\ recentOutbound'[k] = LastOf(Append(recentOutbound[k], OutText(b)), 3)]_vars

\* Two calls for one session overlap with different contexts, 4 texts were
\* pushed, and one call lists the 3 pushed last.
C40_Witness ==
  /\ UnderWay("c1")
  /\ UnderWay("c2")
  /\ attempt["c1"].context # attempt["c2"].context
  /\ Len(pushed["s1"]) = 4
  /\ \E c \in ProofCalls : attempt[c].context = Listing(Tail(pushed["s1"]))
  /\ pushed["s1"][1] # pushed["s1"][4]

====
